---- MODULE Spec2Model ----
(***************************************************************************)
(* Conversation index of cc-conversation-search: the summarization gate    *)
(* (src/src/summarization.py), the indexing store (src/src/indexer.py),    *)
(* the search query (src/src/search.py) and the watch coordinator          *)
(* (src/src/claude_finder/core/watcher.py).                                *)
(*                                                                         *)
(* Text is a TLA+ string; Len, \o and SubSeq act on it character by        *)
(* character, as Python's len, + and slicing do.                           *)
(***************************************************************************)
EXTENDS Integers, Sequences, FiniteSets, TLC

VARIABLES
    gMsg,       \* the message handed to the summarization gate
    gOut,       \* the gate's answer for gMsg, NoResult before the call
    db,         \* the store as committed: what every other connection reads
    conn,       \* the store as the indexer's connection sees it: db plus its
                \* own writes not yet committed
    indexer,    \* the indexer process: "idle" between calls, "hung" inside a
                \* call that never returns
    last,       \* the operation that ran last, with its inputs and outcome
    now,                \* the clock, in seconds since the watcher was constructed
    pending_files,      \* ConversationWatcher.pending_files
    last_change_time,   \* ConversationWatcher.last_change_time
    last_process_time,  \* ConversationWatcher.last_process_time
    observer,           \* the observer thread: where it is inside on_modified
    timerLoop,          \* the main thread: where it is in the loop of start_watcher
    watchLog            \* what the watcher's behaviour has shown so far

gateVars == <<gMsg, gOut>>
storeVars == <<db, conn, indexer, last>>
watchVars == <<now, pending_files, last_change_time, last_process_time, observer, timerLoop, watchLog>>

vars == <<gMsg, gOut, db, conn, indexer, last,
          now, pending_files, last_change_time, last_process_time, observer, timerLoop, watchLog>>

(***************************************************************************)
(* Python string primitives                                                *)
(***************************************************************************)

Min(S) == CHOOSE x \in S : \A y \in S : x <= y
Max(S) == CHOOSE x \in S : \A y \in S : x >= y

\* the element of a one-element set (binds a value that is computed once)
TheOne(S) == CHOOSE x \in S : TRUE

\* s[i] for a 1-based index
CharAt(s, i) == SubSeq(s, i, i)

\* c * n
RECURSIVE Rep(_, _)
Rep(c, n) ==
    IF n <= 0 THEN ""
    ELSE IF n % 2 = 0 THEN LET h == Rep(c, n \div 2) IN h \o h
    ELSE c \o Rep(c, n - 1)

\* s[:n]
Take(s, n) == SubSeq(s, 1, Min({n, Len(s)}))

\* s.startswith(p)
StartsWith(s, p) == Len(s) >= Len(p) /\ SubSeq(s, 1, Len(p)) = p

\* s.endswith(p)
EndsWith(s, p) == Len(s) >= Len(p) /\ SubSeq(s, Len(s) - Len(p) + 1, Len(s)) = p

\* p in s
Contains(s, p) == \E i \in 1..(Len(s) - Len(p) + 1) : SubSeq(s, i, i + Len(p) - 1) = p

IsSpace(c) == c \in {" ", "\n", "\t"}

\* s.strip()
Strip(s) ==
    LET keep == {i \in 1..Len(s) : ~IsSpace(CharAt(s, i))}
    IN  IF keep = {} THEN "" ELSE SubSeq(s, Min(keep), Max(keep))

UpperAlpha == "ABCDEFGHIJKLMNOPQRSTUVWXYZ"
LowerAlpha == "abcdefghijklmnopqrstuvwxyz"

LowerChar(c) ==
    IF \E i \in 1..Len(UpperAlpha) : CharAt(UpperAlpha, i) = c
    THEN CharAt(LowerAlpha, CHOOSE i \in 1..Len(UpperAlpha) : CharAt(UpperAlpha, i) = c)
    ELSE c

\* s.lower()
RECURSIVE Lower(_)
Lower(s) ==
    IF Len(s) = 0 THEN ""
    ELSE IF Len(s) = 1 THEN LowerChar(s)
    ELSE LET h == Len(s) \div 2
         IN  Lower(SubSeq(s, 1, h)) \o Lower(SubSeq(s, h + 1, Len(s)))

\* s.replace(old, new) for one-character old
RECURSIVE Replace(_, _, _)
Replace(s, old, new) ==
    IF Len(s) = 0 THEN ""
    ELSE IF Len(s) = 1 THEN (IF s = old THEN new ELSE s)
    ELSE LET h == Len(s) \div 2
         IN  Replace(SubSeq(s, 1, h), old, new) \o Replace(SubSeq(s, h + 1, Len(s)), old, new)

\* s.split(sep, 1)[-1] for a one-character sep: the text after the first sep,
\* all of s when sep does not occur
AfterFirst(s, sep) ==
    LET at == {i \in 1..Len(s) : CharAt(s, i) = sep}
    IN  IF at = {} THEN s ELSE SubSeq(s, Min(at) + 1, Len(s))

(***************************************************************************)
(* Summarization gate: MessageSummarizer                                   *)
(***************************************************************************)

ToolNoiseShortLen == 50
TextAfterToolMax == 100
AckMaxLen == 150
TooShortLen == 50
TruncMinLen == 145
TruncMaxLen == 150
ShortSummaryLen == 20

noise_patterns ==
    {"[Tool: Read]", "[Tool: Glob]", "[Tool: LS]", "[Tool: Grep]",
     "[Tool result]", "[Request interrupted]"}

ack_phrases ==
    {"let me read", "let me check", "let me search",
     "i'll look at", "looking at", "checking"}

\* the four checks made before the length test
IsMarkerNoise(content) ==
    \/ StartsWith(Strip(content), "[Tool")
    \/ Strip(content) = "[Tool result]"
    \/ Contains(content, "[Request interrupted")
    \/ Strip(content) = ""

\* a read/list/search marker with at most 100 characters after the first ']'
IsPatternNoise(content) ==
    /\ \E p \in noise_patterns : Contains(content, p)
    /\ ~(Len(Strip(AfterFirst(content, "]"))) > TextAfterToolMax)

\* a short assistant acknowledgement
IsAckNoise(message) ==
    /\ message.message_type = "assistant"
    /\ Len(message.content) < AckMaxLen
    /\ \E ph \in ack_phrases : Contains(Lower(message.content), ph)

\* is_tool_noise without the early return for content under 50 characters
is_tool_noise_any_length(message) ==
    LET content == message.content
    IN  IF IsMarkerNoise(content) THEN TRUE
        ELSE IF \E p \in noise_patterns : Contains(content, p)
             THEN ~(Len(Strip(AfterFirst(content, "]"))) > TextAfterToolMax)
             ELSE IsAckNoise(message)

\* MessageSummarizer.is_tool_noise(message)
is_tool_noise(message) ==
    LET content == message.content
    IN  IF IsMarkerNoise(content) THEN TRUE
        ELSE IF Len(content) < ToolNoiseShortLen THEN FALSE
        ELSE IF \E p \in noise_patterns : Contains(content, p)
             THEN ~(Len(Strip(AfterFirst(content, "]"))) > TextAfterToolMax)
             ELSE IsAckNoise(message)

\* is_truncated_summary with the 145..150 test tied to the summary being a
\* prefix of the content
is_truncated_summary_prefix(summary, full_content) ==
    IF summary = "" THEN TRUE
    ELSE \/ EndsWith(summary, "...")
         \/ (TruncMinLen <= Len(summary) /\ Len(summary) <= TruncMaxLen
               /\ StartsWith(full_content, summary))
         \/ StartsWith(summary, "[Tool")
         \/ Len(summary) < ShortSummaryLen

\* MessageSummarizer.is_truncated_summary(summary, full_content)
is_truncated_summary(summary, full_content) ==
    IF summary = "" THEN TRUE
    ELSE \/ EndsWith(summary, "...")
         \/ (TruncMinLen <= Len(summary) /\ Len(summary) <= TruncMaxLen
               /\ Len(full_content) > Len(summary))
         \/ StartsWith(summary, "[Tool")
         \/ Len(summary) < ShortSummaryLen

GateResult(needs, reason) == [needs |-> needs, reason |-> reason]

NoMsg == [content |-> "", message_type |-> "user", summary |-> ""]
NoResult == GateResult(FALSE, "none")

\* needs_summarization with the length test moved before the noise test
needs_summarization_length_first(message) ==
    IF Len(message.content) < TooShortLen THEN GateResult(FALSE, "too_short")
    ELSE IF is_tool_noise(message) THEN GateResult(FALSE, "tool_noise")
    ELSE IF message.summary # "" /\ ~is_truncated_summary(message.summary, message.content)
         THEN GateResult(FALSE, "already_done")
    ELSE GateResult(TRUE, "needs_summary")

\* needs_summarization with "<=" for "<" in the length test
needs_summarization_off_by_one(message) ==
    IF is_tool_noise(message) THEN GateResult(FALSE, "tool_noise")
    ELSE IF Len(message.content) <= TooShortLen THEN GateResult(FALSE, "too_short")
    ELSE IF message.summary # "" /\ ~is_truncated_summary(message.summary, message.content)
         THEN GateResult(FALSE, "already_done")
    ELSE GateResult(TRUE, "needs_summary")

\* MessageSummarizer.needs_summarization(message): (needs_summary, reason)
needs_summarization(message) ==
    IF is_tool_noise(message) THEN GateResult(FALSE, "tool_noise")
    ELSE IF Len(message.content) < TooShortLen THEN GateResult(FALSE, "too_short")
    ELSE IF message.summary # "" /\ ~is_truncated_summary(message.summary, message.content)
         THEN GateResult(FALSE, "already_done")
    ELSE GateResult(TRUE, "needs_summary")


(***************************************************************************)
(* The watch coordinator's state: claude_finder/core/watcher.py            *)
(***************************************************************************)

idle_threshold == 30    \* self.idle_threshold
SleepSeconds == 5       \* time.sleep(5) of the timer loop

\* the observer thread between callbacks, and the timer loop asleep
ObserverIdle == [pc |-> "idle", file |-> "null"]
TimerAsleep(wakeAt) == [pc |-> "sleep", wakeAt |-> wakeAt, unsummarized |-> <<>>]

\* what the behaviour has shown so far: deliveries of on_modified, the time of
\* the last accepted one, the bursts they form, the passes begun and the
\* quiet time the last pass began after; the files with an event accepted
\* since pending_files was last cleared (fresh), the files the last pass took
\* from pending_files and those of them whose indexing raised; the files with
\* an event accepted that no pass has taken up since (unindexed)
NoWatchLog ==
    [events |-> 0, lastEvent |-> -1, bursts |-> 0, passes |-> 0, quiet |-> 0,
     fresh |-> {}, taken |-> {}, failed |-> {}, unindexed |-> {}]

\* ConversationWatcher.__init__ at time 0, then observer.start() and the first
\* time.sleep(5)
WatcherConstructed ==
    /\ now = 0
    /\ pending_files = {}
    /\ last_change_time = 0
    /\ last_process_time = 0
    /\ observer = ObserverIdle
    /\ timerLoop = TimerAsleep(SleepSeconds)
    /\ watchLog = NoWatchLog

(***************************************************************************)
(* Log files: ConversationIndexer.parse_conversation_file                  *)
(***************************************************************************)

Null == "null"          \* Python None / a JSON key that is absent

Ids == {"a", "b", "c"}
Sessions == {"S1", "S2"}
Dangling == "x"         \* a parent id that no record carries

\* the text, role and time of the record with a given uuid; LongContent has
\* 188 characters and the word zebra after the first 150
LongContent ==
    "Please refactor the tokenizer module " \o Rep("so it streams ", 9)
        \o "and add a zebra benchmark"

ContentOf(u) ==
    CASE u = "a" -> "Fix the bug in parser"
      [] u = "b" -> LongContent
      [] OTHER   -> "Fixed it by adjusting regex"

TypeOf(u) == IF u = "a" THEN "user" ELSE "assistant"

TimeOf(u) == CASE u = "a" -> 1 [] u = "b" -> 2 [] OTHER -> 3

\* one line of a log file, as json.loads returns it (or fails on it)
MsgLine(u, p, s) ==
    [kind |-> "record", type |-> TypeOf(u), uuid |-> u, parentUuid |-> p,
     sessionId |-> s, content |-> ContentOf(u), timestamp |-> TimeOf(u),
     summary |-> Null, leafUuid |-> Null]

SummaryLine(text, leaf) ==
    [kind |-> "record", type |-> "summary", uuid |-> Null, parentUuid |-> Null,
     sessionId |-> Null, content |-> Null, timestamp |-> Null,
     summary |-> text, leafUuid |-> leaf]

MalformedLine ==
    [kind |-> "malformed", type |-> Null, uuid |-> Null, parentUuid |-> Null,
     sessionId |-> Null, content |-> Null, timestamp |-> Null,
     summary |-> Null, leafUuid |-> Null]

\* conversation_meta = None
NoMeta == [MalformedLine EXCEPT !.kind = "none"]

\* a record with a uuid and a message whose type is neither user nor assistant
SystemLine(u) == [MsgLine(u, Null, Null) EXCEPT !.type = "system"]

\* a record with a uuid and the type user but without the key "message"
NoBodyLine(u) == [MsgLine(u, Null, "S1") EXCEPT !.type = "user", !.content = Null]

\* a line that is JSON but no object: a number, true or null ("scalar"), on
\* which both data.get and "'uuid' in data" raise, and a list or a string
\* ("array"), on which data.get raises and "'uuid' in data" is False
ScalarLine == [MalformedLine EXCEPT !.kind = "scalar"]
ArrayLine == [MalformedLine EXCEPT !.kind = "array"]

\* parse_conversation_file, the message dict built from one record
ParsedMessage(data) ==
    [uuid |-> data.uuid, parent_uuid |-> data.parentUuid, timestamp |-> data.timestamp,
     message_type |-> data.type, content |-> data.content, session_id |-> data.sessionId]

\* the same without the test for the key "message"
IsMessageLineByRole(lines, i) ==
    /\ lines[i].kind = "record"
    /\ ~(i = 1 /\ lines[i].type = "summary")
    /\ lines[i].uuid # Null
    /\ lines[i].type \in {"user", "assistant"}

IsMessageLine(lines, i) ==
    /\ lines[i].kind = "record"
    /\ ~(i = 1 /\ lines[i].type = "summary")
    /\ lines[i].uuid # Null
    /\ lines[i].content # Null
    /\ lines[i].type \in {"user", "assistant"}

\* the line raises an exception other than JSONDecodeError, which nothing in
\* parse_conversation_file catches
RaisesAt(lines, i) ==
    \/ lines[i].kind = "scalar"
    \/ lines[i].kind = "array" /\ i = 1

RECURSIVE ParsedMessages(_, _)
ParsedMessages(lines, i) ==
    IF i > Len(lines) THEN <<>>
    ELSE (IF IsMessageLine(lines, i) THEN <<ParsedMessage(lines[i])>> ELSE <<>>)
             \o ParsedMessages(lines, i + 1)

\* parse_conversation_file(file_path): (conversation_meta, messages), or raised
\* when a line raised and nothing is returned
parse_conversation_file(lines) ==
    [conversation_meta |->
        IF Len(lines) >= 1 /\ lines[1].kind = "record" /\ lines[1].type = "summary"
        THEN lines[1] ELSE NoMeta,
     messages |-> IF \E i \in 1..Len(lines) : RaisesAt(lines, i) THEN <<>>
                  ELSE ParsedMessages(lines, 1),
     raised |-> \E i \in 1..Len(lines) : RaisesAt(lines, i)]

(***************************************************************************)
(* Depths: ConversationIndexer.calculate_depth                             *)
(***************************************************************************)

\* "not m['parent_uuid']"
Falsy(v) == v = Null \/ v = ""

NoDepth == -1           \* a uuid that is no key of the depths dict

Uuids(messages) == {messages[i].uuid : i \in 1..Len(messages)}

\* the queue entries (uuid, depth) for the messages kept
QueueOf(kept, depth) == [i \in 1..Len(kept) |-> [uuid |-> kept[i].uuid, depth |-> depth]]

\* the while loop. A popped entry deeper than the number of records lies on a
\* path that passes one uuid twice, so that path never ends and neither does
\* the loop: ended is FALSE then
RECURSIVE BfsLoop(_, _, _)
BfsLoop(messages, queue, depths) ==
    IF queue = <<>> THEN [ended |-> TRUE, depths |-> depths]
    ELSE IF Head(queue).depth > Len(messages) THEN [ended |-> FALSE, depths |-> depths]
    ELSE LET cur == Head(queue)
             IsChild(m) == m.parent_uuid = cur.uuid
         IN  TheOne({BfsLoop(messages, q, dp) :
                     q \in {Tail(queue) \o QueueOf(SelectSeq(messages, IsChild), cur.depth + 1)},
                     dp \in {[depths EXCEPT ![cur.uuid] = cur.depth]}})

MaxLines == 2

\* calculate_depth(messages, parent_map): the depths dict
calculate_depth(messages) ==
    LET IsRoot(m) == Falsy(m.parent_uuid)
    IN  BfsLoop(messages, QueueOf(SelectSeq(messages, IsRoot), 0),
                [u \in Uuids(messages) |-> NoDepth])

\* depths.get(uuid, 0)
DepthGet(depths, u) == IF depths[u] = NoDepth THEN 0 ELSE depths[u]

(***************************************************************************)
(* The store: tables conversations and messages and the full-text index    *)
(* over messages.summary.  The schema file is not part of the sources at   *)
(* hand; its keys, defaults and full-text triggers follow the data model   *)
(* of the specification (sections 3 and 6).                                *)
(***************************************************************************)

EmptyStore == [conversations |-> {}, messages |-> {}, fts |-> {}]

\* conversations.session_id is the primary key
ConversationKeyTaken(st, session_id) ==
    \E c \in st.conversations : c.session_id = session_id

\* messages.message_uuid is the primary key, unique across the whole store
MessageKeyTaken(st, uuid) ==
    \E m \in st.messages : m.message_uuid = uuid

\* columns the INSERT of index_conversation does not name
DefaultIsSummarized == FALSE
DefaultSummaryMethod == Null

\* the full-text entry of a message row
FtsRow(m) == [message_uuid |-> m.message_uuid, summary |-> m.summary]

\* full-text index after rows were inserted into or deleted from messages: one
\* entry per row
FtsSync(messages) == {FtsRow(m) : m \in messages}

\* a store without a trigger for UPDATE: the index keeps its old entries
FtsAfterUpdateMissing(fts, messages) == fts

\* full-text index after an UPDATE of messages: the entries follow the summaries
FtsAfterUpdate(fts, messages) == FtsSync(messages)

\* cursor.execute("INSERT INTO conversations ..."): ok is FALSE when the
\* statement raises IntegrityError and changes nothing
InsertConversation(st, row) ==
    IF ConversationKeyTaken(st, row.session_id)
    THEN [ok |-> FALSE, st |-> st]
    ELSE [ok |-> TRUE, st |-> [st EXCEPT !.conversations = @ \cup {row}]]

\* cursor.execute("INSERT INTO messages ...")
InsertMessage(st, row) ==
    IF MessageKeyTaken(st, row.message_uuid)
    THEN [ok |-> FALSE, st |-> st]
    ELSE LET ms == st.messages \cup {row}
         IN  [ok |-> TRUE, st |-> [st EXCEPT !.messages = ms, !.fts = FtsSync(ms)]]

\* the two DELETE statements keeping the conversation row
DeleteSessionMessagesOnly(st, session_id) ==
    LET ms == {m \in st.messages : m.session_id # session_id}
    IN  [st EXCEPT !.messages = ms, !.fts = FtsSync(ms)]

\* the two DELETE statements keeping the message rows
DeleteSessionConversationOnly(st, session_id) ==
    [st EXCEPT !.conversations = {c \in @ : c.session_id # session_id}]

\* DELETE FROM messages WHERE session_id = ?; DELETE FROM conversations WHERE session_id = ?
DeleteSession(st, session_id) ==
    LET ms == {m \in st.messages : m.session_id # session_id}
    IN  [conversations |-> {c \in st.conversations : c.session_id # session_id},
         messages |-> ms, fts |-> FtsSync(ms)]

\* UPDATE messages SET <fields of change> WHERE message_uuid = ?
UpdateMessage(st, uuid, set) ==
    LET ms == {IF m.message_uuid = uuid
               THEN [col \in DOMAIN m |-> IF col \in DOMAIN set THEN set[col] ELSE m[col]]
               ELSE m : m \in st.messages}
    IN  [st EXCEPT !.messages = ms, !.fts = FtsAfterUpdate(st.fts, ms)]

(***************************************************************************)
(* Indexing: ConversationIndexer.index_conversation                        *)
(***************************************************************************)

SummaryLen == 150
ShortContentLen == 50
ShortSummaryCut == 100
FallbackLen == 150
FallbackCut == 147

\* the log file of a session: <project directory>/<session>.jsonl
PathOf(session) ==
    [dir |-> IF session = "S2" THEN "-home-u-lib" ELSE "-home-u-app",
     name |-> session \o ".jsonl"]

\* file_path.parent.name.replace('-', '/')
ProjectPath(path) == Replace(path.dir, "-", "/")

\* str(file_path)
PathStr(path) == "/projects/" \o path.dir \o "/" \o path.name

\* what the Haiku call answers for a message
HaikuText(message) == "Summary of message " \o message.uuid \o " by Haiku"

\* summarize_message(message); haiku says how the API behaves in this call:
\* "none" (no client), "ok", "error"
summarize_message(message, haiku) ==
    LET content == message.content
        fallback == IF Len(content) > FallbackLen
                    THEN Take(content, FallbackCut) \o "..." ELSE content
    IN  IF Len(content) < ShortContentLen THEN Take(content, ShortSummaryCut)
        ELSE IF haiku = "ok" THEN HaikuText(message)
        ELSE fallback

\* next((m for m in messages if not m['parent_uuid']), messages[0])
RootMessage(messages) ==
    LET roots == {i \in 1..Len(messages) : Falsy(messages[i].parent_uuid)}
    IN  IF roots = {} THEN messages[1] ELSE messages[Min(roots)]

\* the conversation row with the placeholder for a file without header
ConversationRowUntitled(path, meta, messages, session_id) ==
    [session_id |-> session_id,
     project_path |-> ProjectPath(path),
     conversation_file |-> PathStr(path),
     root_message_uuid |-> RootMessage(messages).uuid,
     leaf_message_uuid |-> IF meta # NoMeta THEN meta.leafUuid ELSE Null,
     conversation_summary |->
        IF meta # NoMeta /\ meta.summary # Null THEN meta.summary
        ELSE "Untitled conversation",
     first_message_at |-> messages[1].timestamp,
     last_message_at |-> messages[Len(messages)].timestamp,
     message_count |-> Len(messages)]

ConversationRow(path, meta, messages, session_id) ==
    [session_id |-> session_id,
     project_path |-> ProjectPath(path),
     conversation_file |-> PathStr(path),
     root_message_uuid |-> RootMessage(messages).uuid,
     leaf_message_uuid |-> IF meta # NoMeta THEN meta.leafUuid ELSE Null,
     conversation_summary |->
        IF meta # NoMeta
        THEN (IF meta.summary # Null THEN meta.summary ELSE "Untitled conversation")
        ELSE Null,
     first_message_at |-> messages[1].timestamp,
     last_message_at |-> messages[Len(messages)].timestamp,
     message_count |-> Len(messages)]

MessageRow(path, message, session_id, depths, summarize, haiku) ==
    [message_uuid |-> message.uuid,
     session_id |-> session_id,
     parent_uuid |-> message.parent_uuid,
     depth |-> DepthGet(depths, message.uuid),
     timestamp |-> message.timestamp,
     message_type |-> message.message_type,
     project_path |-> ProjectPath(path),
     conversation_file |-> PathStr(path),
     summary |-> IF summarize THEN summarize_message(message, haiku)
                 ELSE Take(message.content, SummaryLen),
     full_content |-> message.content,
     is_summarized |-> DefaultIsSummarized,
     summary_method |-> DefaultSummaryMethod]

\* the for loop over messages: stops at the first INSERT that raises
RECURSIVE InsertMessages(_, _, _, _, _, _, _, _)
InsertMessages(st, path, messages, i, session_id, depths, summarize, haiku) ==
    IF i > Len(messages) THEN [ok |-> TRUE, st |-> st]
    ELSE TheOne({IF r.ok
                 THEN InsertMessages(r.st, path, messages, i + 1, session_id, depths,
                                     summarize, haiku)
                 ELSE r :
                 r \in {InsertMessage(st, MessageRow(path, messages[i], session_id, depths,
                                                     summarize, haiku))}})

\* index_conversation leaving a session that is stored as it is
WriteSessionOnce(st, path, meta, messages, session_id, depths, summarize, haiku) ==
    IF ConversationKeyTaken(st, session_id) THEN [outcome |-> "committed", st |-> st]
    ELSE TheOne({IF ~conv.ok THEN [outcome |-> "raised", st |-> conv.st]
                 ELSE TheOne({[outcome |-> IF msgs.ok THEN "committed" ELSE "raised",
                               st |-> msgs.st] :
                              msgs \in {InsertMessages(conv.st, path, messages, 1, session_id,
                                                       depths, summarize, haiku)}}) :
                 conv \in {InsertConversation(st,
                                              ConversationRow(path, meta, messages, session_id))}})

\* lines 279-342: the existence check, the deletes, the inserts and the commit.
\* outcome "raised": a statement raised, nothing is committed and the writes
\* made so far stay in the connection's open transaction
WriteSession(st, path, meta, messages, session_id, depths, summarize, haiku) ==
    LET existing == ConversationKeyTaken(st, session_id)
        cleared == IF existing THEN DeleteSession(st, session_id) ELSE st
    IN  TheOne({IF ~conv.ok THEN [outcome |-> "raised", st |-> conv.st]
                ELSE TheOne({[outcome |-> IF msgs.ok THEN "committed" ELSE "raised",
                              st |-> msgs.st] :
                             msgs \in {InsertMessages(conv.st, path, messages, 1, session_id,
                                                      depths, summarize, haiku)}}) :
                conv \in {InsertConversation(cleared,
                                             ConversationRow(path, meta, messages, session_id))}})

\* index_conversation going on without a session id
IndexMessagesUnchecked(st, path, meta, messages, summarize, haiku) ==
    IF messages = <<>> THEN [outcome |-> "no_messages", st |-> st]
    ELSE TheOne({IF ~d.ended THEN [outcome |-> "hang", st |-> st]
                 ELSE WriteSession(st, path, meta, messages, messages[1].session_id,
                                   d.depths, summarize, haiku) :
                 d \in {calculate_depth(messages)}})

\* index_conversation filing the messages under the session of the last one
IndexMessagesLastSession(st, path, meta, messages, summarize, haiku) ==
    IF messages = <<>> THEN [outcome |-> "no_messages", st |-> st]
    ELSE IF Falsy(messages[1].session_id) THEN [outcome |-> "no_session", st |-> st]
    ELSE TheOne({IF ~d.ended THEN [outcome |-> "hang", st |-> st]
                 ELSE WriteSession(st, path, meta, messages, messages[Len(messages)].session_id,
                                   d.depths, summarize, haiku) :
                 d \in {calculate_depth(messages)}})

\* lines 259-274: the early returns and the depths. outcome "no_messages" and
\* "no_session" are the early returns, "hang" a depth loop that never ends
IndexMessages(st, path, meta, messages, summarize, haiku) ==
    IF messages = <<>> THEN [outcome |-> "no_messages", st |-> st]
    ELSE IF Falsy(messages[1].session_id) THEN [outcome |-> "no_session", st |-> st]
    ELSE TheOne({IF ~d.ended THEN [outcome |-> "hang", st |-> st]
                 ELSE WriteSession(st, path, meta, messages, messages[1].session_id,
                                   d.depths, summarize, haiku) :
                 d \in {calculate_depth(messages)}})

\* index_conversation(file_path, summarize) on the connection whose view is st
index_conversation(st, path, lines, summarize, haiku) ==
    TheOne({IF parsed.raised THEN [outcome |-> "raised", st |-> st]
            ELSE IndexMessages(st, path, parsed.conversation_meta, parsed.messages,
                               summarize, haiku) :
            parsed \in {parse_conversation_file(lines)}})

(***************************************************************************)
(* Summary updates: MessageSummarizer.update_database                      *)
(***************************************************************************)

MaxPairs == 1

\* the loop of update_database over summaries[i..]: the store and the count of
\* statements whose rowcount was positive
RECURSIVE ApplySummaries(_, _, _, _, _)
ApplySummaries(st, summaries, i, method, updated) ==
    IF i > Len(summaries) THEN [st |-> st, updated |-> updated]
    ELSE LET uuid == summaries[i].uuid
             summary == summaries[i].summary
             Change == [summary |-> summary, is_summarized |-> TRUE,
                        summary_method |-> method]
         IN  IF Falsy(uuid) \/ Falsy(summary)
             THEN ApplySummaries(st, summaries, i + 1, method, updated)
             ELSE ApplySummaries(UpdateMessage(st, uuid, Change), summaries, i + 1, method,
                                 IF MessageKeyTaken(st, uuid) THEN updated + 1 ELSE updated)

\* update_database writing the tag of the indexer's fallback summaries
update_database_raw_method(st, summaries) == ApplySummaries(st, summaries, 1, "raw_truncated", 0)

\* update_database with "AND is_summarized = FALSE" in its UPDATE
update_database_unsummarized(st, summaries) ==
    LET Open(pair) == \A m \in st.messages : m.message_uuid = pair.uuid => ~m.is_summarized
    IN  ApplySummaries(st, SelectSeq(summaries, Open), 1, "ai_generated", 0)

\* update_database(summaries, method='ai_generated') on a connection of its own
update_database(st, summaries) == ApplySummaries(st, summaries, 1, "ai_generated", 0)

\* the loop of watcher_daemon.update_summaries and of
\* summarize_and_index.update_database_with_summaries: SET summary only
RECURSIVE ApplySummaryTexts(_, _, _, _)
ApplySummaryTexts(st, summaries, i, updated) ==
    IF i > Len(summaries) THEN [st |-> st, updated |-> updated]
    ELSE LET uuid == summaries[i].uuid
             summary == summaries[i].summary
             Change == [summary |-> summary]
         IN  IF Falsy(uuid) \/ Falsy(summary)
             THEN ApplySummaryTexts(st, summaries, i + 1, updated)
             ELSE ApplySummaryTexts(UpdateMessage(st, uuid, Change), summaries, i + 1,
                                    IF MessageKeyTaken(st, uuid) THEN updated + 1 ELSE updated)

\* watcher_daemon.ConversationWatcher.update_summaries(summaries)
update_summaries(st, summaries) == ApplySummaryTexts(st, summaries, 1, 0)

(***************************************************************************)
(* The indexing store as a state machine                                   *)
(***************************************************************************)

NoCall ==
    [op |-> "none", path |-> [dir |-> "", name |-> ""], lines |-> <<>>,
     outcome |-> Null, existed |-> FALSE, before |-> {}, summarized |-> {}, again |-> FALSE,
     summaries |-> <<>>, updated |-> 0,
     query |-> "", days_back |-> 0, limit |-> 0, project_path |-> "null", results |-> <<>>,
     args |-> [none |-> TRUE], result |-> [error |-> "null"]]

SeqsUpTo(S, n) == UNION {[1..k -> S] : k \in 0..n}

\* a log file as a session writes it: every record carries the session's id,
\* the first has no parent and each later one answers the one before it
ChainFile(session, uuids) ==
    [path |-> PathOf(session),
     lines |-> [i \in 1..Len(uuids) |->
                  MsgLine(uuids[i], IF i = 1 THEN Null ELSE uuids[i - 1], session)]]

\* the files the main specification indexes
StoreIds == {"a", "b"}

StoreFiles ==
    {ChainFile(s, us) : s \in Sessions, us \in SeqsUpTo(StoreIds, MaxLines)}

IndexModes ==
    {[summarize |-> FALSE, haiku |-> "none"],
     [summarize |-> TRUE, haiku |-> "ok"]}

AiSummary == "Explains how the parser bug was fixed"

SummaryPairs ==
    [uuid : {"a", Dangling}, summary : {AiSummary, ""}]

Init ==
    /\ gMsg = NoMsg
    /\ gOut = NoResult
    /\ db = EmptyStore
    /\ conn = EmptyStore
    /\ indexer = "idle"
    /\ last = NoCall
    /\ WatcherConstructed

\* the session index_conversation files the messages of lines under
SessionOf(lines) ==
    LET messages == parse_conversation_file(lines).messages
    IN  IF messages = <<>> THEN Null ELSE messages[1].session_id

\* one turn of the loop of index_all / cmd_index / cmd_init: index_conversation
\* on the scan's connection, an exception caught and the scan going on
IndexFile(file, mode) ==
    /\ indexer = "idle"
    /\ \E r \in {index_conversation(conn, file.path, file.lines, mode.summarize, mode.haiku)} :
           /\ conn' = r.st
           /\ db' = IF r.outcome = "committed" THEN r.st ELSE db
           /\ indexer' = IF r.outcome = "hang" THEN "hung" ELSE "idle"
           /\ last' = [NoCall EXCEPT !.op = "index", !.path = file.path,
                                     !.lines = file.lines,
                                     !.outcome = r.outcome,
                                     !.existed = ConversationKeyTaken(conn, SessionOf(file.lines)),
                                     !.before = {m.message_uuid : m \in
                                        {x \in conn.messages :
                                            x.session_id = SessionOf(file.lines)}},
                                     !.summarized = {m.message_uuid : m \in
                                        {x \in conn.messages :
                                            /\ x.session_id = SessionOf(file.lines)
                                            /\ x.is_summarized}},
                                     !.again = /\ last.op = "index"
                                               /\ last.path = file.path
                                               /\ last.lines = file.lines]
    /\ UNCHANGED gateVars
    /\ UNCHANGED watchVars

\* indexer.close() at the end of a scan, or the process ending: the open
\* transaction, if any, is rolled back
CloseIndexer ==
    /\ last.op # "close"
    /\ conn' = db
    /\ indexer' = "idle"
    /\ last' = [NoCall EXCEPT !.op = "close"]
    /\ UNCHANGED db
    /\ UNCHANGED gateVars
    /\ UNCHANGED watchVars

\* a summary update on a connection of its own: while the indexer's connection
\* holds an open write transaction the first UPDATE raises "database is locked"
\* and nothing changes; otherwise the updates are applied and committed
SummaryWrite(op, written, summaries) ==
    /\ IF conn # db
       THEN /\ UNCHANGED <<db, conn>>
            /\ last' = [NoCall EXCEPT !.op = op, !.summaries = summaries,
                                      !.outcome = "locked"]
       ELSE \E res \in {written} :
                /\ db' = res.st
                /\ conn' = res.st
                /\ last' = [NoCall EXCEPT !.op = op, !.summaries = summaries,
                                          !.outcome = "committed", !.updated = res.updated]
    /\ UNCHANGED indexer
    /\ UNCHANGED gateVars
    /\ UNCHANGED watchVars

\* MessageSummarizer.update_database(summaries)
UpdateDatabase(summaries) == SummaryWrite("update_database", update_database(db, summaries), summaries)

\* watcher_daemon.update_summaries(summaries), on a connection of its own
UpdateSummaries(summaries) == SummaryWrite("update_summaries", update_summaries(db, summaries), summaries)

Next ==
    \/ \E file \in StoreFiles, mode \in IndexModes : IndexFile(file, mode)
    \/ CloseIndexer
    \/ \E summaries \in SeqsUpTo(SummaryPairs, MaxPairs) : UpdateDatabase(summaries)
    \/ \E summaries \in SeqsUpTo(SummaryPairs, MaxPairs) : UpdateSummaries(summaries)

Spec == Init /\ [][Next]_vars

(***************************************************************************)
(* Properties of the store, checked under Spec                             *)
(***************************************************************************)

SessionMessages(st, s) == {m \in st.messages : m.session_id = s}

\* what a finished index of lines stores for a session: its conversation row
\* and its message rows, without the summary columns and the computed depth
ParsedRows(lines) ==
    LET messages == parse_conversation_file(lines).messages
    IN  [conv |-> {[session_id |-> messages[1].session_id, message_count |-> Len(messages)]},
         msgs |-> {[message_uuid |-> messages[i].uuid,
                    session_id |-> messages[1].session_id,
                    parent_uuid |-> messages[i].parent_uuid,
                    full_content |-> messages[i].content] : i \in 1..Len(messages)}]

StoredRows(st, s) ==
    [conv |-> {[session_id |-> c.session_id, message_count |-> c.message_count] :
                  c \in {x \in st.conversations : x.session_id = s}},
     msgs |-> {[message_uuid |-> m.message_uuid, session_id |-> m.session_id,
                parent_uuid |-> m.parent_uuid, full_content |-> m.full_content] :
                  m \in SessionMessages(st, s)}]

\* C1: every committed state shows, for every session, either the rows it had
\* before the call or exactly the rows parsed from the file of the call, also
\* after a call on the same connection raised partway.
C1_AtomicReindex ==
    [][\A s \in Sessions :
          \/ StoredRows(db', s) = StoredRows(db, s)
          \/ /\ last'.op = "index"
             /\ SessionOf(last'.lines) = s
             /\ StoredRows(db', s) = ParsedRows(last'.lines)]_vars

\* the rows idempotence speaks of
IdempotenceView(st) ==
    [conv |-> {[session_id |-> c.session_id, message_count |-> c.message_count] :
                  c \in st.conversations},
     msgs |-> {[message_uuid |-> m.message_uuid, session_id |-> m.session_id,
                parent_uuid |-> m.parent_uuid, full_content |-> m.full_content,
                depth |-> m.depth] : m \in st.messages}]

\* C2: indexing the same unchanged file a second time right after the first
\* leaves the same conversation rows (message_count) and the same message rows
\* (ids, content, parent references, depths), committed and on the connection.
C2_IndexIdempotent ==
    [][(last'.op = "index" /\ last'.again) =>
          /\ IdempotenceView(db') = IdempotenceView(db)
          /\ IdempotenceView(conn') = IdempotenceView(conn)]_vars

\* a file of two messages was indexed and committed twice in succession
C2_Witness ==
    /\ last.op = "index" /\ last.again /\ last.outcome = "committed"
    /\ Len(last.lines) = 2
    /\ Cardinality(db.messages) >= 2

\* C3: after index() of a session that already existed has committed, the
\* session's message rows are exactly the messages parsed from the file of this
\* call, one row per message, and the session has one conversation row.
C3_FullReplace ==
    (last.op = "index" /\ last.outcome = "committed" /\ last.existed) =>
        LET s == SessionOf(last.lines)
        IN  /\ StoredRows(db, s) = ParsedRows(last.lines)
            /\ Cardinality(SessionMessages(db, s)) = Len(last.lines)
            /\ Cardinality({c \in db.conversations : c.session_id = s}) = 1
            /\ conn = db

\* a reindex committed that dropped a message the session had before
C3_Witness ==
    /\ last.op = "index" /\ last.outcome = "committed" /\ last.existed
    /\ \E u \in last.before : ~MessageKeyTaken(db, u)
    /\ SessionMessages(db, SessionOf(last.lines)) # {}

FtsLockstep(st) ==
    /\ st.fts = {[message_uuid |-> m.message_uuid, summary |-> m.summary] : m \in st.messages}
    /\ Cardinality(st.fts) = Cardinality(st.messages)

TreeLines == 3

TreeParents == {Null, "a", "b", Dangling}

\* a log file whose records name any parent: roots, chains, forks, records
\* answering an absent record, cycles, repeated ids; session is the sessionId
\* every record carries (Null: the field is missing)
TreeFile(session, recs) ==
    [path |-> PathOf("S1"),
     lines |-> [i \in 1..Len(recs) |-> MsgLine(recs[i].uuid, recs[i].parent, session)]]

TreeFiles ==
    {TreeFile(s, recs) : s \in {"S1", Null},
                         recs \in SeqsUpTo([uuid : Ids, parent : TreeParents], TreeLines)}

RawMode == [summarize |-> FALSE, haiku |-> "none"]

NextTree ==
    \/ \E file \in TreeFiles : last.op = "none" /\ IndexFile(file, RawMode)
    \/ last.op = "index" /\ CloseIndexer

SpecTree == Init /\ [][NextTree]_vars

\* the stored parent of a message: the rows of its session whose id is the
\* message's parent id
StoredParents(st, m) ==
    {p \in SessionMessages(st, m.session_id) : p.message_uuid = m.parent_uuid}

\* C4: after index() has committed, every stored message of the session has
\* depth(parent) + 1 when its parent id is the id of a stored message of the
\* session, and depth 0 otherwise.
C4_TreeLaw ==
    (last.op = "index" /\ last.outcome = "committed") =>
        \A m \in db.messages :
            IF StoredParents(db, m) = {}
            THEN m.depth = 0
            ELSE \A p \in StoredParents(db, m) : m.depth = p.depth + 1

(***************************************************************************)
(* The watch specification: the observer thread's on_modified and the      *)
(* timer loop of start_watcher, sharing pending_files and last_change_time *)
(* without a lock (claude_finder/core/watcher.py)                          *)
(***************************************************************************)

MaxTime == 40
MaxEvents == 3
BatchSize == 20     \* batch_size = 20 in process_pending

\* the log files under the watched directory, by path, and what they hold
\* the third one ends in a line that is JSON but no object, so that indexing
\* it raises
WatchLogs ==
    {ChainFile("S1", <<"a">>), ChainFile("S2", <<"b">>),
     [path |-> PathOf("S3"), lines |-> <<MsgLine("c", Null, "S3"), ScalarLine>>]}

LinesAt(path) == TheOne({f.lines : f \in {g \in WatchLogs : g.path = path}})

\* the events watchdog delivers: a change of a log file, of an agent file, of
\* a directory
WatchEvents ==
    {[is_directory |-> FALSE, src_path |-> f.path] : f \in WatchLogs}
        \cup {[is_directory |-> FALSE, src_path |-> [dir |-> "-home-u-app", name |-> "agent-7.jsonl"]],
              [is_directory |-> TRUE, src_path |-> [dir |-> "-home-u-app", name |-> ""]]}

\* the conditions of on_modified under which the file is recorded
Accepted(event) ==
    /\ ~event.is_directory
    /\ EndsWith(event.src_path.name, ".jsonl")
    /\ ~StartsWith(event.src_path.name, "agent-")

\* is_summarizer_conversation(conv_file, messages), messages being the records
\* with a uuid, each with the text of the whole record as content
summarizer_indicators ==
    {"summarize this", "create a 1-2 sentence summary", "generate concise summaries",
     "max 150 characters", "for each message", "json output:", "brief summary here",
     "messages to summarize:"}

is_summarizer_conversation(lines) ==
    LET withUuid == SelectSeq(lines, LAMBDA l : l.kind = "record" /\ l.uuid # Null)
    IN  /\ Len(withUuid) >= 2
        /\ Len(withUuid) <= 10
        /\ \E k \in summarizer_indicators : Contains(Lower(withUuid[1].content), k)

\* the orders in which list(self.pending_files) can enumerate a set
Orders(S) == {q \in [1..Cardinality(S) -> S] : \A x \in S : \E i \in DOMAIN q : q[i] = x}

\* step 1 of process_pending over files[i..] on the connection of the pass's own
\* indexer: cw is what that connection sees, committed what it has committed,
\* removed the files taken out of pending_files, failed the files on which
\* index_conversation raised ("except Exception" and on to the next file)
RECURSIVE IndexPending(_, _, _, _, _, _)
IndexPending(cw, committed, files, i, removed, failed) ==
    IF i > Len(files) THEN [committed |-> committed, removed |-> removed, failed |-> failed]
    ELSE IF is_summarizer_conversation(LinesAt(files[i]))
         THEN IndexPending(cw, committed, files, i + 1, removed \cup {files[i]}, failed)
    ELSE TheOne({IndexPending(r.st, IF r.outcome = "committed" THEN r.st ELSE committed,
                              files, i + 1, removed,
                              IF r.outcome = "raised" THEN failed \cup {files[i]} ELSE failed) :
                 r \in {index_conversation(cw, files[i], LinesAt(files[i]), FALSE, "none")}})

\* self.summarizer.needs_summarization(msg) for the message of each watched
\* record, msg carrying no summary; computed once
WatchedNeeds ==
    [u \in Ids |-> needs_summarization([content |-> ContentOf(u), message_type |-> TypeOf(u),
                                        summary |-> ""]).needs]

\* get_unsummarized_messages(conv_file): the file's messages that have a row
\* not yet summarized and that the gate lets through
get_unsummarized_messages(st, lines) ==
    LET file_messages == parse_conversation_file(lines).messages
        withSession == SelectSeq(file_messages, LAMBDA m : ~Falsy(m.session_id))
        Wanted(m) ==
            /\ \E row \in st.messages : row.message_uuid = m.uuid /\ ~row.is_summarized
            /\ WatchedNeeds[m.uuid]
    IN  IF withSession = <<>> \/ file_messages = <<>> THEN <<>>
        ELSE SelectSeq(file_messages, Wanted)

\* step 2 of process_pending over files[i..]
RECURSIVE CollectUnsummarized(_, _, _)
CollectUnsummarized(st, files, i) ==
    IF i > Len(files) THEN <<>>
    ELSE get_unsummarized_messages(st, LinesAt(files[i])) \o CollectUnsummarized(st, files, i + 1)

\* summarize_batch(batch) when the call to Haiku answers for every message
\* ("ok"), for every second one ("partial"), with well-formed JSON whose
\* "summaries" are texts and no objects ("misshapen", an item being shown as
\* [text |-> ...]), and when it fails (non-zero exit, timeout, unparsable
\* answer, an empty list of summaries)
summarize_batch(batch, answer) ==
    IF answer = "ok"
    THEN [i \in 1..Len(batch) |-> [uuid |-> batch[i].uuid, summary |-> HaikuText(batch[i])]]
    ELSE IF answer = "partial"
    THEN [i \in 1..((Len(batch) + 1) \div 2) |->
            [uuid |-> batch[2 * i - 1].uuid, summary |-> HaikuText(batch[2 * i - 1])]]
    ELSE IF answer = "misshapen"
    THEN <<[text |-> HaikuText(batch[1])]>>
    ELSE <<>>

\* the batch loop of process_pending from batch k on; answers[k] is how the
\* call for batch k goes
RECURSIVE SummarizeBatches(_, _, _, _)
SummarizeBatches(st, all_unsummarized, k, answers) ==
    IF (k - 1) * BatchSize >= Len(all_unsummarized) THEN st
    ELSE LET batch == SubSeq(all_unsummarized, (k - 1) * BatchSize + 1,
                             Min({k * BatchSize, Len(all_unsummarized)}))
             summaries == summarize_batch(batch, answers[k])
         IN  SummarizeBatches(IF summaries # <<>> THEN update_database(st, summaries).st ELSE st,
                              all_unsummarized, k + 1, answers)

BatchCount(n) == (n + BatchSize - 1) \div BatchSize

\* a second passes: the timer loop does not oversleep, the callback does its
\* second write within the second of its first, and of the steps of a pass
\* only the calls to Haiku take seconds
Tick ==
    /\ now < MaxTime
    /\ timerLoop.pc = "sleep" => now < timerLoop.wakeAt
    /\ timerLoop.pc \in {"sleep", "summarize"}
    /\ observer.pc = "idle"
    /\ now' = now + 1
    /\ UNCHANGED <<pending_files, last_change_time, last_process_time, observer, timerLoop, watchLog>>
    /\ UNCHANGED <<gateVars, storeVars>>

\* on_modified(event) up to and including pending_files.add(file_path)
OnModified(event) ==
    /\ observer.pc = "idle"
    /\ watchLog.events < MaxEvents
    /\ IF Accepted(event)
       THEN /\ pending_files' = pending_files \cup {event.src_path}
            /\ observer' = [pc |-> "stamp", file |-> event.src_path.name]
            /\ watchLog' = [watchLog EXCEPT
                              !.events = @ + 1,
                              !.lastEvent = now,
                              !.fresh = @ \cup {event.src_path},
                              !.unindexed = @ \cup {event.src_path},
                              !.bursts = IF watchLog.lastEvent = -1
                                            \/ now - watchLog.lastEvent >= idle_threshold
                                         THEN @ + 1 ELSE @]
       ELSE /\ watchLog' = [watchLog EXCEPT !.events = @ + 1]
            /\ UNCHANGED <<pending_files, observer>>
    /\ UNCHANGED <<now, last_change_time, last_process_time, timerLoop>>
    /\ UNCHANGED <<gateVars, storeVars>>

\* on_modified: self.last_change_time = time.time()
OnModifiedStamp ==
    /\ observer.pc = "stamp"
    /\ last_change_time' = now
    /\ observer' = ObserverIdle
    /\ UNCHANGED <<now, pending_files, last_process_time, timerLoop, watchLog>>
    /\ UNCHANGED <<gateVars, storeVars>>

\* the timer loop wakes and reads "if event_handler.pending_files"
TimerWake ==
    /\ timerLoop.pc = "sleep"
    /\ now >= timerLoop.wakeAt
    /\ timerLoop' = IF pending_files = {} THEN TimerAsleep(now + SleepSeconds)
                    ELSE [timerLoop EXCEPT !.pc = "idle_check"]
    /\ UNCHANGED <<now, pending_files, last_change_time, last_process_time, observer, watchLog>>
    /\ UNCHANGED <<gateVars, storeVars>>

\* time_since_last_change >= idle_threshold: process_pending() is called
TimerIdleCheck ==
    /\ timerLoop.pc = "idle_check"
    /\ IF now - last_change_time >= idle_threshold
       THEN /\ timerLoop' = [timerLoop EXCEPT !.pc = "process_pending"]
            /\ watchLog' = [watchLog EXCEPT !.passes = @ + 1,
                                            !.quiet = now - watchLog.lastEvent]
       ELSE /\ timerLoop' = TimerAsleep(now + SleepSeconds)
            /\ UNCHANGED watchLog
    /\ UNCHANGED <<now, pending_files, last_change_time, last_process_time, observer>>
    /\ UNCHANGED <<gateVars, storeVars>>

\* process_pending, step 1: the files of list(self.pending_files) are indexed
\* again on a connection of the pass's own, then indexer.close()
ProcessPendingIndex ==
    /\ timerLoop.pc = "process_pending"
    /\ IF pending_files = {}
       THEN /\ timerLoop' = TimerAsleep(now + SleepSeconds)
            /\ UNCHANGED <<pending_files, db, conn, watchLog>>
       ELSE \E files \in Orders(pending_files) :
            \E r \in {IndexPending(db, db, files, 1, {}, {})} :
                /\ db' = r.committed
                /\ conn' = r.committed
                /\ pending_files' = pending_files \ r.removed
                /\ timerLoop' = [timerLoop EXCEPT !.pc = "collect"]
                /\ watchLog' = [watchLog EXCEPT !.taken = pending_files, !.failed = r.failed,
                                                !.unindexed = @ \ pending_files]
    /\ UNCHANGED <<now, last_change_time, last_process_time, observer>>
    /\ UNCHANGED <<gateVars, indexer, last>>

\* process_pending, step 2: the unsummarized messages of list(self.pending_files)
ProcessPendingCollect ==
    /\ timerLoop.pc = "collect"
    /\ \E files \in Orders(pending_files) :
           timerLoop' = [timerLoop EXCEPT !.pc = "clear",
                                          !.unsummarized = CollectUnsummarized(db, files, 1)]
    /\ UNCHANGED <<now, pending_files, last_change_time, last_process_time, observer, watchLog>>
    /\ UNCHANGED <<gateVars, storeVars>>

\* a clear that keeps the files whose indexing raised, for another try
ProcessPendingClearKeepFailed ==
    /\ timerLoop.pc = "clear"
    /\ pending_files' = pending_files \cap watchLog.failed
    /\ timerLoop' = IF timerLoop.unsummarized = <<>> THEN TimerAsleep(now + SleepSeconds)
                    ELSE [timerLoop EXCEPT !.pc = "summarize"]
    /\ watchLog' = [watchLog EXCEPT !.fresh = {}]
    /\ UNCHANGED <<now, last_change_time, last_process_time, observer>>
    /\ UNCHANGED <<gateVars, storeVars>>

\* process_pending: self.pending_files.clear(), and the return when nothing
\* needs a summary
ProcessPendingClear ==
    /\ timerLoop.pc = "clear"
    /\ pending_files' = {}
    /\ timerLoop' = IF timerLoop.unsummarized = <<>> THEN TimerAsleep(now + SleepSeconds)
                    ELSE [timerLoop EXCEPT !.pc = "summarize"]
    /\ watchLog' = [watchLog EXCEPT !.fresh = {}]
    /\ UNCHANGED <<now, last_change_time, last_process_time, observer>>
    /\ UNCHANGED <<gateVars, storeVars>>

\* process_pending: the batches are summarized and written, last_process_time
\* is set, then the loop sleeps
ProcessPendingSummarize ==
    /\ timerLoop.pc = "summarize"
    /\ \E answers \in [1..BatchCount(Len(timerLoop.unsummarized)) -> {"ok", "failed"}] :
       \E st \in {SummarizeBatches(db, timerLoop.unsummarized, 1, answers)} :
           /\ db' = st
           /\ conn' = st
    /\ last_process_time' = now
    /\ timerLoop' = TimerAsleep(now + SleepSeconds)
    /\ UNCHANGED <<now, pending_files, last_change_time, observer, watchLog>>
    /\ UNCHANGED <<gateVars, indexer, last>>

NextWatch ==
    \/ Tick
    \/ \E event \in WatchEvents : OnModified(event)
    \/ OnModifiedStamp
    \/ TimerWake
    \/ TimerIdleCheck
    \/ ProcessPendingIndex
    \/ ProcessPendingCollect
    \/ ProcessPendingClear
    \/ ProcessPendingSummarize

SpecWatch == Init /\ [][NextWatch]_vars

\* C5: no pass begins while less than the idle threshold has passed since the
\* last accepted change event, and a burst of events, each less than the idle
\* threshold after the one before, gets one pass: never more passes than bursts.
C5_DebounceLaw ==
    /\ watchLog.passes > 0 => watchLog.quiet >= idle_threshold
    /\ watchLog.passes <= watchLog.bursts

\* C6: the callback is never between its two writes while the timer loop is
\* between its reading of the pending set and the pass's clear of it.
C6_MutualExclusion ==
    ~(/\ observer.pc = "stamp"
      /\ timerLoop.pc \in {"idle_check", "process_pending", "collect", "clear"})

\* the timer loop is past the clear of a pass, or between passes
PassOver == timerLoop.pc \in {"summarize", "sleep"} /\ watchLog.passes > 0

\* C24: once a pass has cleared the pending set, no file it took is pending
\* on account of that pass, a file whose indexing raised included; a file is
\* pending only by an event accepted after the last clear, and a pass takes only
\* such files.
C24_PassClearsPending ==
    /\ pending_files \subseteq watchLog.fresh
    /\ PassOver => \A f \in watchLog.taken : f \in pending_files => f \in watchLog.fresh
    /\ timerLoop.pc \in {"collect", "clear"} =>
          /\ watchLog.failed \subseteq watchLog.taken
          /\ watchLog.taken \subseteq watchLog.fresh

\* a pass took S3.jsonl, whose indexing raised, cleared the set and went on to
\* summarize the messages of another file
C24_Witness ==
    /\ timerLoop.pc = "summarize"
    /\ PathOf("S3") \in watchLog.failed
    /\ Cardinality(watchLog.taken) >= 2
    /\ pending_files = {}

(***************************************************************************)
(* The watch coordinator running on: the clock never stops, the threads    *)
(* keep taking their steps, and the change events come to an end           *)
(***************************************************************************)

\* a second passes. Once the clock shows MaxTime the origin of time is moved
\* on by a second in place of the clock: every stored time is lowered by one,
\* down to 0, and the time since a change is then counted as at least
\* MaxTime, which lies above the idle threshold
TickOn ==
    /\ timerLoop.pc = "sleep" => now < timerLoop.wakeAt
    /\ timerLoop.pc \in {"sleep", "summarize"}
    /\ observer.pc = "idle"
    /\ IF now < MaxTime
       THEN /\ now' = now + 1
            /\ UNCHANGED <<last_change_time, last_process_time, timerLoop, watchLog>>
       ELSE /\ now' = now
            /\ last_change_time' = Max({0, last_change_time - 1})
            /\ last_process_time' = Max({0, last_process_time - 1})
            /\ timerLoop' = IF timerLoop.pc = "sleep"
                            THEN [timerLoop EXCEPT !.wakeAt = @ - 1] ELSE timerLoop
            /\ watchLog' = [watchLog EXCEPT
                              !.lastEvent = IF @ = -1 THEN -1 ELSE Max({0, @ - 1})]
    /\ UNCHANGED <<pending_files, observer>>
    /\ UNCHANGED <<gateVars, storeVars>>

MaxLiveEvents == 2

\* the changes of the two conversation logs
LiveLogs == {f \in WatchLogs : f.path \in {PathOf("S1"), PathOf("S2")}}

LiveEvents == {e \in WatchEvents : \E f \in LiveLogs : e.src_path = f.path}

\* the steps of the timer loop and the second write of the callback
WatcherStep ==
    \/ OnModifiedStamp
    \/ TimerWake
    \/ TimerIdleCheck
    \/ ProcessPendingIndex
    \/ ProcessPendingCollect
    \/ ProcessPendingClear
    \/ ProcessPendingSummarize

NextWatchLive ==
    \/ TickOn
    \/ \E event \in LiveEvents : watchLog.events < MaxLiveEvents /\ OnModified(event)
    \/ WatcherStep

SpecWatchLive ==
    Init /\ [][NextWatchLive]_vars /\ WF_vars(TickOn) /\ WF_vars(WatcherStep)

\* C29: every change event accepted for a log file is followed by a pass that
\* indexes that file again, once the events have come to an end; an event
\* accepted while a pass is between its indexing and its clear included.
C29_NoEventLost ==
    \A f \in LiveLogs :
        (f.path \in watchLog.unindexed) ~> (f.path \notin watchLog.unindexed)

(***************************************************************************)
(* The fixed-interval daemon (watcher_daemon.py): on_modified, on the      *)
(* observer's thread, and the loop of main both call process_pending       *)
(***************************************************************************)

min_batch_interval == 30    \* self.min_batch_interval

DaemonLogs == {ChainFile("S1", <<"a">>), ChainFile("S2", <<"b">>)}

\* the events delivered to the daemon: a change of a log file, of an agent
\* file
DaemonEvents ==
    {[is_directory |-> FALSE, src_path |-> f.path] : f \in DaemonLogs}
        \cup {[is_directory |-> FALSE, src_path |-> [dir |-> "-home-u-app", name |-> "agent-7.jsonl"]]}

DaemonLinesAt(path) == TheOne({f.lines : f \in {g \in DaemonLogs : g.path = path}})

\* the store the daemon is started on: the two logs indexed with summaries by
\* an indexer without API client, so that a long message carries its first 147
\* characters and an ellipsis
DaemonIndexed ==
    index_conversation(
        index_conversation(EmptyStore, PathOf("S1"), DaemonLinesAt(PathOf("S1")), TRUE, "none").st,
        PathOf("S2"), DaemonLinesAt(PathOf("S2")), TRUE, "none").st

\* get_unsummarized_messages of the daemon: is_truncated of a stored row
DaemonIsTruncated(row) ==
    /\ EndsWith(row.summary, "...")
    /\ Len(row.summary) >= 140
    /\ StartsWith(row.full_content, Strip(SubSeq(row.summary, 1, Len(row.summary) - 3)))

\* get_unsummarized_messages(conv_file) of the daemon
DaemonUnsummarized(st, lines) ==
    LET file_messages == parse_conversation_file(lines).messages
        withSession == SelectSeq(file_messages, LAMBDA m : ~Falsy(m.session_id))
        Truncated(m) ==
            \E row \in st.messages : row.message_uuid = m.uuid /\ DaemonIsTruncated(row)
    IN  IF withSession = <<>> THEN <<>> ELSE SelectSeq(file_messages, Truncated)

\* the first loop of the daemon's process_pending over files[i..]
RECURSIVE DaemonCollectAll(_, _, _)
DaemonCollectAll(st, files, i) ==
    IF i > Len(files) THEN <<>>
    ELSE DaemonUnsummarized(st, DaemonLinesAt(files[i])) \o DaemonCollectAll(st, files, i + 1)

\* the batch loop of the daemon's process_pending from batch k on
RECURSIVE DaemonBatches(_, _, _, _)
DaemonBatches(st, all_unsummarized, k, answers) ==
    IF (k - 1) * BatchSize >= Len(all_unsummarized) THEN st
    ELSE LET batch == SubSeq(all_unsummarized, (k - 1) * BatchSize + 1,
                             Min({k * BatchSize, Len(all_unsummarized)}))
             summaries == summarize_batch(batch, answers[k])
         IN  DaemonBatches(IF summaries # <<>> THEN update_summaries(st, summaries).st ELSE st,
                           all_unsummarized, k + 1, answers)

\* the two threads that run the handler's code: the observer's, which delivers
\* on_modified, and the main thread in its loop
DaemonThreads == {"observer", "main"}

ThreadAt(who) == IF who = "observer" THEN observer ELSE timerLoop

\* the thread is back from process_pending: the callback returns, the loop
\* sleeps again
Returned(who) == IF who = "observer" THEN ObserverIdle ELSE TimerAsleep(now + SleepSeconds)

ThreadGoes(who, r) ==
    IF who = "observer" THEN observer' = r /\ UNCHANGED timerLoop
    ELSE timerLoop' = r /\ UNCHANGED observer

\* inside process_pending
InPass(thread) == thread.pc \in {"process_pending", "clear", "summarize"}

\* ConversationWatcher.__init__ and observer.start() of the daemon's main
InitDaemon ==
    /\ gMsg = NoMsg
    /\ gOut = NoResult
    /\ db = DaemonIndexed
    /\ conn = DaemonIndexed
    /\ indexer = "idle"
    /\ last = NoCall
    /\ WatcherConstructed

\* a second passes: between callbacks and turns of the loop, and during a
\* call to Haiku
DaemonTick ==
    /\ now < MaxTime
    /\ timerLoop.pc = "sleep" => now < timerLoop.wakeAt
    /\ timerLoop.pc \in {"sleep", "summarize"}
    /\ observer.pc \in {"idle", "summarize"}
    /\ now' = now + 1
    /\ UNCHANGED <<pending_files, last_change_time, last_process_time, observer, timerLoop, watchLog>>
    /\ UNCHANGED <<gateVars, storeVars>>

\* on_modified(event) of the daemon up to pending_files.add(file_path)
DaemonOnModified(event) ==
    /\ observer.pc = "idle"
    /\ watchLog.events < MaxEvents
    /\ watchLog' = [watchLog EXCEPT !.events = @ + 1]
    /\ IF Accepted(event)
       THEN /\ pending_files' = pending_files \cup {event.src_path}
            /\ observer' = [pc |-> "interval_check", file |-> event.src_path.name]
       ELSE UNCHANGED <<pending_files, observer>>
    /\ UNCHANGED <<now, last_change_time, last_process_time, timerLoop>>
    /\ UNCHANGED <<gateVars, storeVars>>

\* the loop of main wakes and reads "if event_handler.pending_files"
DaemonTimerWake ==
    /\ timerLoop.pc = "sleep"
    /\ now >= timerLoop.wakeAt
    /\ timerLoop' = IF pending_files = {} THEN TimerAsleep(now + SleepSeconds)
                    ELSE [timerLoop EXCEPT !.pc = "interval_check"]
    /\ UNCHANGED <<now, pending_files, last_change_time, last_process_time, observer, watchLog>>
    /\ UNCHANGED <<gateVars, storeVars>>

\* "if time_since_last >= min_batch_interval: process_pending()", in
\* on_modified and in the loop of main alike
DaemonIntervalCheck(who) ==
    /\ ThreadAt(who).pc = "interval_check"
    /\ IF now - last_process_time >= min_batch_interval
       THEN /\ ThreadGoes(who, [pc |-> "process_pending", unsummarized |-> <<>>])
            /\ watchLog' = [watchLog EXCEPT !.passes = @ + 1]
       ELSE /\ ThreadGoes(who, Returned(who))
            /\ UNCHANGED watchLog
    /\ UNCHANGED <<now, pending_files, last_change_time, last_process_time>>
    /\ UNCHANGED <<gateVars, storeVars>>

\* the daemon's process_pending up to the clear: the unsummarized messages of
\* list(self.pending_files), read on connections of their own
DaemonCollect(who) ==
    /\ ThreadAt(who).pc = "process_pending"
    /\ IF pending_files = {}
       THEN ThreadGoes(who, Returned(who))
       ELSE \E files \in Orders(pending_files) :
                ThreadGoes(who, [pc |-> "clear",
                                 unsummarized |-> DaemonCollectAll(db, files, 1)])
    /\ UNCHANGED <<now, pending_files, last_change_time, last_process_time, watchLog>>
    /\ UNCHANGED <<gateVars, storeVars>>

\* self.pending_files.clear(), and the return when nothing needs a summary
DaemonClear(who) ==
    /\ ThreadAt(who).pc = "clear"
    /\ pending_files' = {}
    /\ IF ThreadAt(who).unsummarized = <<>>
       THEN ThreadGoes(who, Returned(who))
       ELSE ThreadGoes(who, [ThreadAt(who) EXCEPT !.pc = "summarize"])
    /\ UNCHANGED <<now, last_change_time, last_process_time, watchLog>>
    /\ UNCHANGED <<gateVars, storeVars>>

\* the batches are sent to Haiku and written by update_summaries, then
\* last_process_time is set
DaemonSummarize(who) ==
    /\ ThreadAt(who).pc = "summarize"
    /\ \E answers \in [1..BatchCount(Len(ThreadAt(who).unsummarized)) -> {"ok", "failed"}] :
       \E st \in {DaemonBatches(db, ThreadAt(who).unsummarized, 1, answers)} :
           /\ db' = st
           /\ conn' = st
    /\ last_process_time' = now
    /\ ThreadGoes(who, Returned(who))
    /\ UNCHANGED <<now, pending_files, last_change_time, watchLog>>
    /\ UNCHANGED <<gateVars, indexer, last>>

NextDaemon ==
    \/ DaemonTick
    \/ \E event \in DaemonEvents : DaemonOnModified(event)
    \/ DaemonTimerWake
    \/ \E who \in DaemonThreads : DaemonIntervalCheck(who)
    \/ \E who \in DaemonThreads : DaemonCollect(who)
    \/ \E who \in DaemonThreads : DaemonClear(who)
    \/ \E who \in DaemonThreads : DaemonSummarize(who)

SpecDaemon == InitDaemon /\ [][NextDaemon]_vars

\* C25: at most one processing pass is active at any time in one running
\* watcher: the observer's thread and the main thread are never inside
\* process_pending together.
C25_SinglePass == ~(InPass(observer) /\ InPass(timerLoop))

(***************************************************************************)
(* Reindexing after summaries were written: index_conversation without     *)
(* summaries, as a watch pass calls it, and update_database                *)
(***************************************************************************)

ReindexPairs == [uuid : {"a", "b"}, summary : {AiSummary}]

NextReindex ==
    \/ \E file \in StoreFiles : IndexFile(file, RawMode)
    \/ \E summaries \in SeqsUpTo(ReindexPairs, MaxPairs) : UpdateDatabase(summaries)
    \/ CloseIndexer

SpecReindex == Init /\ [][NextReindex]_vars

\* the last call was an index of a session that was stored, and it committed
Reindexed == last.op = "index" /\ last.outcome = "committed" /\ last.existed

\* C28: after index(file, summarize=False) on a stored session every message
\* of the session has the first 150 characters of its content for summary,
\* whatever summary it had, and is not marked summarized; the messages of the
\* file that the gate lets through are candidates of get_unsummarized_messages
\* again.
C28_ReindexDiscardsSummaries ==
    Reindexed =>
        /\ \A m \in SessionMessages(db, SessionOf(last.lines)) :
              /\ m.summary = Take(m.full_content, 150)
              /\ ~m.is_summarized
              /\ m.summary_method = Null
        /\ get_unsummarized_messages(db, last.lines)
              = SelectSeq(parse_conversation_file(last.lines).messages,
                          LAMBDA m : WatchedNeeds[m.uuid])

\* the session of a and b was indexed again after both had a summary by
\* Haiku, and b is a candidate again
C28_Witness ==
    /\ Reindexed
    /\ last.summarized = {"a", "b"}
    /\ \E i \in 1..Len(get_unsummarized_messages(db, last.lines)) :
          get_unsummarized_messages(db, last.lines)[i].uuid = "b"

(***************************************************************************)
(* Search: ConversationSearch.search_conversations, over the full-text     *)
(* engine of the store                                                     *)
(***************************************************************************)

Digits == "0123456789"

AlnumChars ==
    {CharAt(LowerAlpha, i) : i \in 1..Len(LowerAlpha)}
        \cup {CharAt(UpperAlpha, i) : i \in 1..Len(UpperAlpha)}
        \cup {CharAt(Digits, i) : i \in 1..Len(Digits)}

IsAlnum(c) == c \in AlnumChars

\* c belongs to the class chars: "alnum" letters and digits, "word" anything
\* but white space
InClass(c, chars) == IF chars = "alnum" THEN IsAlnum(c) ELSE ~IsSpace(c)

\* where the maximal runs of the characters of s that are of a class begin, and
\* where the run that begins at i ends
RunStarts(s, chars) ==
    {i \in 1..Len(s) : InClass(CharAt(s, i), chars) /\ (i = 1 \/ ~InClass(CharAt(s, i - 1), chars))}

RunEnd(s, chars, i) ==
    CHOOSE j \in i..Len(s) : j = Len(s) \/ ~InClass(CharAt(s, j + 1), chars)

\* the runs as a set, and in order
RunSet(s, chars) == {SubSeq(s, i, RunEnd(s, chars, i)) : i \in RunStarts(s, chars)}

Runs(s, chars) ==
    TheOne({[k \in 1..Cardinality(starts) |->
                TheOne({SubSeq(s, i, RunEnd(s, chars, i)) :
                        i \in {x \in starts : Cardinality({j \in starts : j < x}) = k - 1}})] :
            starts \in {RunStarts(s, chars)}})

\* s.split()
Split(s) == Runs(s, "word")

\* sep.join(parts)
RECURSIVE Join(_, _)
Join(parts, sep) ==
    IF parts = <<>> THEN ""
    ELSE IF Len(parts) = 1 THEN parts[1]
    ELSE parts[1] \o sep \o Join(Tail(parts), sep)

fts_operators == {" AND ", " OR ", " NOT ", "\""}

\* the MATCH expression sent for a query, every term taken whole
FtsQueryWholeWords(query) ==
    IF ~\E op \in fts_operators : Contains(query, op)
    THEN Join(Split(query), " ")
    ELSE query

\* the MATCH expression search_conversations sends for a query
FtsQuery(query) ==
    IF ~\E op \in fts_operators : Contains(query, op)
    THEN LET terms == Split(query)
         IN  IF Len(terms) = 1 THEN terms[1] \o "*"
             ELSE Join([i \in 1..Len(terms) |-> terms[i] \o "*"], " ")
    ELSE query

\* the engine's tokens of an indexed text: its runs of letters and digits,
\* case folded
FtsTokens(text) == {Lower(t) : t \in RunSet(text, "alnum")}

\* the items of a MATCH expression that name tokens; AND between two items
\* says what their adjacency says
NotAnd(item) == item # "AND"

FtsItems(fts_query) == SelectSeq(Split(fts_query), NotAnd)

FtsWord(item) == IF EndsWith(item, "*") THEN SubSeq(item, 1, Len(item) - 1) ELSE item

\* the engine accepts the expression: at least one item, each a word of
\* letters and digits with or without a trailing star
FtsAccepts(items) ==
    /\ items # <<>>
    /\ \A i \in 1..Len(items) :
          /\ FtsWord(items[i]) # ""
          /\ \A j \in 1..Len(FtsWord(items[i])) : IsAlnum(CharAt(FtsWord(items[i]), j))

\* summary MATCH fts_query: every item finds a token, a starred item as the
\* beginning of one and a bare item as the whole of one
FtsMatch(tokens, items) ==
    \A i \in 1..Len(items) :
        IF EndsWith(items[i], "*")
        THEN \E t \in tokens : StartsWith(t, Lower(FtsWord(items[i])))
        ELSE Lower(items[i]) \in tokens

SearchToday == 3    \* datetime.now(), in the days the timestamps count

\* the rows the SELECT of search_conversations yields, before ORDER BY and LIMIT
SearchRows(st, items, days_back, project_path) ==
    TheOne({{m \in st.messages :
                /\ m.message_uuid \in hits
                /\ \E c \in st.conversations : c.session_id = m.session_id
                /\ days_back # 0 => m.timestamp >= SearchToday - days_back
                /\ project_path # Null => m.project_path = project_path} :
            hits \in {{f.message_uuid : f \in
                         {g \in st.fts : FtsMatch(FtsTokens(g.summary), items)}}}})

\* the results search_conversations can return: the rows by falling timestamp,
\* cut at limit; raised when the engine rejects the expression
Ranked(rows, limit) ==
    {[outcome |-> "ok", results |-> SubSeq(q, 1, Min({limit, Len(q)}))] :
        q \in {o \in Orders(rows) :
                  \A i \in 1..Len(o) : \A j \in i..Len(o) : o[i].timestamp >= o[j].timestamp}}

search_conversations(st, query, days_back, limit, project_path) ==
    UNION {IF ~FtsAccepts(items) THEN {[outcome |-> "raised", results |-> <<>>]}
           ELSE UNION {Ranked(rows, limit) :
                       rows \in {SearchRows(st, items, days_back, project_path)}} :
           items \in {FtsItems(FtsQuery(query))}}

MaxLimit == 2

SearchFiles == {ChainFile("S1", <<"a", "b">>), ChainFile("S2", <<"c">>)}

SearchQueries ==
    {"fix", "Fix bug", "pars", "parser FIX", "zebra", "token stream", "haiku",
     "nothing", "fix nothing", "  fix   regex ", "pars AND bug", "parser AND bug", ""}

\* search_conversations(query, days_back, limit, project_path) on a connection
\* of its own, which reads what is committed. A search leaves the store as it
\* is, so a search after a search reaches only what the first one's state
\* reaches: the action is taken from the states other operations leave.
Search(query, days_back, limit, project_path) ==
    /\ last.op # "search"
    /\ \E r \in search_conversations(db, query, days_back, limit, project_path) :
           last' = [NoCall EXCEPT !.op = "search", !.query = query,
                                  !.days_back = days_back, !.limit = limit,
                                  !.project_path = project_path,
                                  !.outcome = r.outcome, !.results = r.results]
    /\ UNCHANGED <<db, conn, indexer>>
    /\ UNCHANGED gateVars
    /\ UNCHANGED watchVars

NextSearch ==
    \/ \E file \in SearchFiles, mode \in IndexModes : IndexFile(file, mode)
    \/ \E query \in SearchQueries, days_back \in {0, 1}, limit \in 1..MaxLimit,
          project_path \in {Null, "/home/u/app"} :
              Search(query, days_back, limit, project_path)

SpecSearch == Init /\ [][NextSearch]_vars

\* a query of one or more plain words: no operator of the engine in it, and
\* its words made of letters and digits
PlainWords(query) ==
    /\ ~\E op \in fts_operators : Contains(query, op)
    /\ Split(query) # <<>>
    /\ \A k \in 1..Len(Split(query)) :
          \A j \in 1..Len(Split(query)[k]) : IsAlnum(CharAt(Split(query)[k], j))

\* word is the beginning of some word of text, whatever the case of letters
WordBegins(text, word) ==
    \E i \in 1..(Len(text) - Len(word) + 1) :
        /\ i = 1 \/ ~IsAlnum(CharAt(text, i - 1))
        /\ Lower(SubSeq(text, i, i + Len(word) - 1)) = Lower(word)

\* the stored messages whose summary has every word of the query at the
\* beginning of one of its words, and that pass the two filters
Eligible(st, query, days_back, project_path) ==
    {m \in st.messages :
        /\ \A k \in 1..Len(Split(query)) : WordBegins(m.summary, Split(query)[k])
        /\ days_back # 0 => m.timestamp >= SearchToday - days_back
        /\ project_path # Null => m.project_path = project_path}

\* C10: for a query of plain words, search returns exactly the messages whose
\* stored summary has every query word as the beginning of one of its words,
\* among those passing the recency and project filters the limit most recent,
\* newest first; the full content plays no part, and when some word begins no
\* word of any summary the result is empty.
C10_SearchPrefixLaw ==
    (last.op = "search" /\ PlainWords(last.query)) =>
        LET eligible == Eligible(db, last.query, last.days_back, last.project_path)
            results == last.results
        IN  /\ last.outcome = "ok"
            /\ {results[i].message_uuid : i \in 1..Len(results)} =
                  {m.message_uuid : m \in
                     {x \in eligible :
                         Cardinality({y \in eligible : y.timestamp > x.timestamp}) < last.limit}}
            /\ \A i \in 1..Len(results) : \A j \in i..Len(results) :
                  /\ results[i].timestamp >= results[j].timestamp
                  /\ i # j => results[i] # results[j]
            /\ (\E k \in 1..Len(Split(last.query)) :
                   \A m \in db.messages : ~WordBegins(m.summary, Split(last.query)[k]))
                  => results = <<>>

\* a search of a proper beginning of a word found a message, and the store
\* holds a message whose full content has a word that its summary lacks
C10_Witness ==
    /\ last.op = "search" /\ last.query = "pars" /\ last.outcome = "ok"
    /\ Len(last.results) = 1
    /\ last.results[1].message_uuid = "a"
    /\ \E m \in db.messages : Contains(m.full_content, "zebra") /\ ~Contains(m.summary, "zebra")

(***************************************************************************)
(* Reading the tree: ConversationSearch.get_conversation_context and       *)
(* get_conversation_tree, on a connection that reads what is committed     *)
(***************************************************************************)

\* the rows of st with a given id (at most one, the id being the key)
RowsWithId(st, uuid) == {m \in st.messages : m.message_uuid = uuid}

\* the while loop of get_conversation_context: ancestors.insert(0, parent)
\* until the parent id is falsy, does not resolve, or depth levels are taken
RECURSIVE WalkUp(_, _, _, _, _)
WalkUp(st, current_uuid, levels, depth, ancestors) ==
    IF Falsy(current_uuid) \/ levels >= depth THEN ancestors
    ELSE IF RowsWithId(st, current_uuid) = {} THEN ancestors
    ELSE TheOne({WalkUp(st, parent.parent_uuid, levels + 1, depth, <<parent>> \o ancestors) :
                 parent \in RowsWithId(st, current_uuid)})

\* the children by descending timestamp
ChildrenListsUnordered(st, message_uuid) ==
    {o \in Orders({m \in st.messages : m.parent_uuid = message_uuid}) :
        \A i \in 1..Len(o) : \A j \in i..Len(o) : o[i].timestamp >= o[j].timestamp}

\* the rows "WHERE parent_uuid = ? ORDER BY timestamp ASC" can yield
ChildrenLists(st, message_uuid) ==
    {o \in Orders({m \in st.messages : m.parent_uuid = message_uuid}) :
        \A i \in 1..Len(o) : \A j \in i..Len(o) : o[i].timestamp <= o[j].timestamp}

\* get_conversation_context(message_uuid, depth, include_children): the dicts
\* it can return; "raised" when dict(cursor.fetchone()) meets no conversation row
get_conversation_context(st, message_uuid, depth, include_children) ==
    IF RowsWithId(st, message_uuid) = {} THEN {[error |-> "not_found"]}
    ELSE UNION {
        IF {c \in st.conversations : c.session_id = target.session_id} = {}
        THEN {[error |-> "raised"]}
        ELSE {[error |-> Null, message |-> target, ancestors |-> ancestors,
               children |-> children, conversation |-> conversation,
               context_depth |-> Len(ancestors)] :
                 ancestors \in {WalkUp(st, target.parent_uuid, 0, depth, <<>>)},
                 children \in IF include_children THEN ChildrenLists(st, message_uuid)
                              ELSE {<<>>},
                 conversation \in {c \in st.conversations : c.session_id = target.session_id}} :
        target \in RowsWithId(st, message_uuid)}

\* _build_tree(messages): msg_map as the children list of every node, and the
\* list of roots, both as ids in the order of messages
LinkedMessages(messages) ==
    LET InMap(m) == \E i \in 1..Len(messages) : messages[i].message_uuid = m.parent_uuid
        IsLinked(m) == ~Falsy(m.parent_uuid) /\ InMap(m)
    IN  SelectSeq(messages, IsLinked)

\* the parentless messages as the only roots
ParentlessMessages(messages) ==
    LET IsRoot(m) == Falsy(m.parent_uuid)
    IN  SelectSeq(messages, IsRoot)

UnlinkedMessages(messages) ==
    LET InMap(m) == \E i \in 1..Len(messages) : messages[i].message_uuid = m.parent_uuid
        IsRoot(m) == ~(~Falsy(m.parent_uuid) /\ InMap(m))
    IN  SelectSeq(messages, IsRoot)

UuidsOf(messages) == [i \in 1..Len(messages) |-> messages[i].message_uuid]

ChildrenOf(messages, uuid) ==
    LET IsChild(m) == m.parent_uuid = uuid
    IN  UuidsOf(SelectSeq(LinkedMessages(messages), IsChild))

_build_tree(messages) ==
    [roots |-> UuidsOf(UnlinkedMessages(messages)),
     msg_map |-> [uuid \in {messages[i].message_uuid : i \in 1..Len(messages)} |->
                    [message |-> TheOne({messages[i] : i \in {j \in 1..Len(messages) :
                                             messages[j].message_uuid = uuid}}),
                     children |-> ChildrenOf(messages, uuid)]]]

\* the rows "WHERE session_id = ? ORDER BY timestamp ASC" can yield
SessionLists(st, session_id) ==
    {o \in Orders({m \in st.messages : m.session_id = session_id}) :
        \A i \in 1..Len(o) : \A j \in i..Len(o) : o[i].timestamp <= o[j].timestamp}

\* get_conversation_tree(session_id): the dicts it can return
get_conversation_tree(st, session_id) ==
    IF {c \in st.conversations : c.session_id = session_id} = {}
    THEN {[error |-> "not_found"]}
    ELSE {[error |-> Null, conversation |-> conversation,
           tree |-> _build_tree(messages), total_messages |-> Len(messages)] :
             messages \in SessionLists(st, session_id),
             conversation \in {c \in st.conversations : c.session_id = session_id}}

MaxDepth == 2

\* the files of the reading specification: a file of session S1 with records
\* over a and b and any parents, a file of session S2 with the record c
ReadParents == {Null, "a", "b", "c", Dangling}

ReadFiles ==
    {[path |-> PathOf("S1"),
      lines |-> [i \in 1..Len(recs) |-> MsgLine(recs[i].uuid, recs[i].parent, "S1")]] :
        recs \in SeqsUpTo([uuid : {"a", "b"}, parent : ReadParents], 2)}
    \cup {[path |-> PathOf("S2"), lines |-> <<MsgLine("c", p, "S2")>>] : p \in {Null, "a", "c"}}

\* one file more is indexed while the store holds fewer than two sessions
IndexForReading(file) ==
    /\ Cardinality(db.conversations) < 2
    /\ ~ConversationKeyTaken(conn, SessionOf(file.lines))
    /\ IndexFile(file, RawMode)

\* get_conversation_context on a connection of its own. It leaves the store as
\* it is, so it is taken from the states other operations leave.
GetContext(message_uuid, depth, include_children) ==
    /\ last.op \notin {"context", "tree"}
    /\ \E r \in get_conversation_context(db, message_uuid, depth, include_children) :
           last' = [NoCall EXCEPT !.op = "context",
                                  !.args = [message_uuid |-> message_uuid, depth |-> depth,
                                            include_children |-> include_children],
                                  !.result = r]
    /\ UNCHANGED <<db, conn, indexer>>
    /\ UNCHANGED gateVars
    /\ UNCHANGED watchVars

\* get_conversation_tree on a connection of its own
GetTree(session_id) ==
    /\ last.op \notin {"context", "tree"}
    /\ \E r \in get_conversation_tree(db, session_id) :
           last' = [NoCall EXCEPT !.op = "tree",
                                  !.args = [session_id |-> session_id],
                                  !.result = r]
    /\ UNCHANGED <<db, conn, indexer>>
    /\ UNCHANGED gateVars
    /\ UNCHANGED watchVars

NextRead ==
    \/ \E file \in ReadFiles : IndexForReading(file)
    \/ \E session_id \in Sessions \cup {Dangling} : GetTree(session_id)
    \/ \E message_uuid \in Ids \cup {Dangling}, depth \in 0..MaxDepth,
          include_children \in BOOLEAN :
              GetContext(message_uuid, depth, include_children)

SpecRead == Init /\ [][NextRead]_vars

\* the id of the parent the walk would look up after k ancestors are taken
\* (listed nearest last): the target's parent id for k = 0
NextParentId(target, ancestors, k) ==
    IF k = 0 THEN target.parent_uuid ELSE ancestors[Len(ancestors) - k + 1].parent_uuid

\* C11: get_conversation_context answers not found exactly when the id is no
\* stored message; otherwise it returns the stored row of the id, at most depth
\* ancestors that are the chain parent, grandparent, ... (the list holds them
\* with the parent last), cut only after depth levels or where the next parent
\* id is empty or no stored message, the direct children by ascending timestamp
\* when include_children is set and none otherwise, and the conversation row of
\* the target's session.
C11_GetContext ==
    last.op = "context" =>
        LET id == last.args.message_uuid
            r == last.result
        IN  IF RowsWithId(db, id) = {} THEN r = [error |-> "not_found"]
            ELSE /\ r.error = Null
                 /\ r.message \in RowsWithId(db, id)
                 /\ Len(r.ancestors) <= last.args.depth
                 /\ \A k \in 1..Len(r.ancestors) :
                       /\ r.ancestors[Len(r.ancestors) - k + 1] \in db.messages
                       /\ r.ancestors[Len(r.ancestors) - k + 1].message_uuid
                             = NextParentId(r.message, r.ancestors, k - 1)
                 /\ Len(r.ancestors) < last.args.depth =>
                       RowsWithId(db, NextParentId(r.message, r.ancestors, Len(r.ancestors))) = {}
                 /\ IF last.args.include_children
                    THEN /\ {r.children[i] : i \in 1..Len(r.children)}
                               = {m \in db.messages : m.parent_uuid = id}
                         /\ \A i \in 1..Len(r.children) : \A j \in (i + 1)..Len(r.children) :
                               /\ r.children[i].timestamp <= r.children[j].timestamp
                               /\ r.children[i] # r.children[j]
                    ELSE r.children = <<>>
                 /\ r.conversation \in db.conversations
                 /\ r.conversation.session_id = r.message.session_id

\* a context with two ancestors, cut by the depth, and two children that come
\* from different sessions
C11_Witness ==
    /\ last.op = "context" /\ last.result.error = Null
    /\ last.args.depth = 1 /\ Len(last.result.ancestors) = 1
    /\ RowsWithId(db, last.result.ancestors[1].parent_uuid) # {}
    /\ Len(last.result.children) = 2
    /\ last.result.children[1].session_id # last.result.children[2].session_id

\* how often the nodes listed in ids and the nodes nested below them show uuid
RECURSIVE Shown(_, _, _)
Shown(tree, ids, uuid) ==
    IF ids = <<>> THEN 0
    ELSE (IF Head(ids) = uuid THEN 1 ELSE 0)
         + Shown(tree, tree.msg_map[Head(ids)].children, uuid)
         + Shown(tree, Tail(ids), uuid)

\* a message sits under a root when following parents inside the session
\* ends, within n steps, at a message whose parent is no message of the session
RECURSIVE UnderRoot(_, _, _, _)
UnderRoot(st, session_id, m, n) ==
    LET parents == {q \in SessionMessages(st, session_id) : q.message_uuid = m.parent_uuid}
    IN  IF Falsy(m.parent_uuid) \/ parents = {} THEN TRUE
        ELSE IF n = 0 THEN FALSE
        ELSE \A q \in parents : UnderRoot(st, session_id, q, n - 1)

\* the linking rule of _build_tree, for the result of a tree call
TreeLinked(st, session_id, tree) ==
    /\ DOMAIN tree.msg_map = {m.message_uuid : m \in SessionMessages(st, session_id)}
    /\ \A m \in SessionMessages(st, session_id) :
          LET inSession == \E q \in SessionMessages(st, session_id) :
                               q.message_uuid = m.parent_uuid
              asRoot == Cardinality({i \in 1..Len(tree.roots) : tree.roots[i] = m.message_uuid})
              asChild(u) == Cardinality({i \in 1..Len(tree.msg_map[u].children) :
                                            tree.msg_map[u].children[i] = m.message_uuid})
          IN  /\ tree.msg_map[m.message_uuid].message = m
              /\ IF ~Falsy(m.parent_uuid) /\ inSession
                 THEN /\ asRoot = 0
                      /\ \A u \in DOMAIN tree.msg_map :
                            asChild(u) = IF u = m.parent_uuid THEN 1 ELSE 0
                 ELSE /\ asRoot = 1
                      /\ \A u \in DOMAIN tree.msg_map : asChild(u) = 0

C26_ForestInvariant ==
    /\ \A m \in db.messages :
          \A parent \in RowsWithId(db, m.parent_uuid) : parent.session_id = m.session_id
    /\ (last.op = "context" /\ last.result.error = Null) =>
          \A i \in 1..Len(last.result.ancestors) :
              last.result.ancestors[i].session_id = last.result.message.session_id

(***************************************************************************)
(* The summary updates of MessageSummarizer on an indexed store            *)
(***************************************************************************)

\* the columns of messages
MessageColumns ==
    {"message_uuid", "session_id", "parent_uuid", "depth", "timestamp", "message_type",
     "project_path", "conversation_file", "summary", "full_content", "is_summarized",
     "summary_method"}

\* UPDATE messages SET <set> WHERE message_uuid IN (uuids[i..])
RECURSIVE UpdateMessagesIn(_, _, _, _)
UpdateMessagesIn(st, uuids, i, set) ==
    IF i > Len(uuids) THEN st
    ELSE UpdateMessagesIn(UpdateMessage(st, uuids[i], set), uuids, i + 1, set)

\* one UPDATE ... WHERE message_uuid IN (...) of mark_tool_noise / mark_too_short,
\* committed; a SET of a column the table does not have raises and changes nothing
MarkMessages(st, message_uuids, set) ==
    IF message_uuids = <<>> THEN [st |-> st, outcome |-> "returned"]
    ELSE IF ~(DOMAIN set \subseteq MessageColumns) THEN [st |-> st, outcome |-> "raised"]
    ELSE [st |-> UpdateMessagesIn(st, message_uuids, 1, set), outcome |-> "committed"]

\* MessageSummarizer.mark_tool_noise(message_uuids)
mark_tool_noise(st, message_uuids) ==
    MarkMessages(st, message_uuids, [is_tool_noise |-> TRUE, summary_method |-> "too_short"])

\* mark_too_short resetting the depth as well
mark_too_short_depth(st, message_uuids) ==
    MarkMessages(st, message_uuids,
                 [is_summarized |-> TRUE, summary_method |-> "too_short", depth |-> 0])

\* MessageSummarizer.mark_too_short(message_uuids)
mark_too_short(st, message_uuids) ==
    MarkMessages(st, message_uuids, [is_summarized |-> TRUE, summary_method |-> "too_short"])

MaxUpdatePairs == 2

OtherSummary == "Asks for the failing test to be rerun"

UpdatePairs ==
    [uuid : {"a", Dangling}, summary : {AiSummary, OtherSummary, ""}]

UpdateFiles == {ChainFile("S1", <<"a", "b">>), ChainFile("S2", <<"c">>)}

\* the store is filled before the summaries are written
IndexForUpdate(file, mode) ==
    /\ ~ConversationKeyTaken(conn, SessionOf(file.lines))
    /\ \A m \in db.messages : ~m.is_summarized \/ m.summary_method # "ai_generated"
    /\ IndexFile(file, mode)

\* mark_tool_noise / mark_too_short on a connection of their own
MarkWrite(op, written, message_uuids) ==
    /\ IF conn # db
       THEN /\ UNCHANGED <<db, conn>>
            /\ last' = [NoCall EXCEPT !.op = op, !.args = [message_uuids |-> message_uuids],
                                      !.outcome = "locked"]
       ELSE \E res \in {written} :
                /\ db' = res.st
                /\ conn' = res.st
                /\ last' = [NoCall EXCEPT !.op = op, !.args = [message_uuids |-> message_uuids],
                                          !.outcome = res.outcome]
    /\ UNCHANGED indexer
    /\ UNCHANGED gateVars
    /\ UNCHANGED watchVars

MarkToolNoise(message_uuids) ==
    MarkWrite("mark_tool_noise", mark_tool_noise(db, message_uuids), message_uuids)

MarkTooShort(message_uuids) ==
    MarkWrite("mark_too_short", mark_too_short(db, message_uuids), message_uuids)

NextUpdate ==
    \/ \E file \in UpdateFiles, mode \in IndexModes : IndexForUpdate(file, mode)
    \/ \E summaries \in SeqsUpTo(UpdatePairs, MaxUpdatePairs) : UpdateDatabase(summaries)
    \/ \E summaries \in SeqsUpTo(UpdatePairs, MaxUpdatePairs) : UpdateSummaries(summaries)
    \/ \E message_uuids \in SeqsUpTo({"a", "b", Dangling}, MaxUpdatePairs) :
          MarkToolNoise(message_uuids)
    \/ \E message_uuids \in SeqsUpTo({"a", "b", Dangling}, MaxUpdatePairs) :
          MarkTooShort(message_uuids)

SpecUpdate == Init /\ [][NextUpdate]_vars

\* the pairs of summaries, by position, that name the stored message uuid and
\* are not skipped for an empty id or an empty summary
WritingPairs(summaries, uuid) ==
    {i \in 1..Len(summaries) :
        summaries[i].uuid = uuid /\ ~Falsy(summaries[i].uuid) /\ ~Falsy(summaries[i].summary)}

NamingPairs(summaries, uuid) == {i \in 1..Len(summaries) : summaries[i].uuid = uuid}

\* the row m after the pairs of hits were written with the columns of the call
Summarized(m, summaries, hits, flags) ==
    IF hits = {} THEN m
    ELSE IF flags
    THEN [m EXCEPT !.summary = summaries[Max(hits)].summary,
                   !.is_summarized = TRUE, !.summary_method = "ai_generated"]
    ELSE [m EXCEPT !.summary = summaries[Max(hits)].summary]

\* C13 as stated, for update_database and the daemon's update_summaries: every
\* pair whose id is a stored message sets that message's summary to the pair's
\* (the last pair of an id standing), is_summarized to true and summary_method
\* to ai_generated; other pairs change nothing; the number returned counts the
\* pairs that met a row.
C13_UpdateEveryPair ==
    [][(last'.op \in {"update_database", "update_summaries"} /\ last'.outcome = "committed") =>
          /\ db'.messages = {Summarized(m, last'.summaries,
                                        NamingPairs(last'.summaries, m.message_uuid), TRUE) :
                               m \in db.messages}
          /\ db'.conversations = db.conversations
          /\ last'.updated = Cardinality(UNION {NamingPairs(last'.summaries, m.message_uuid) :
                                                  m \in db.messages})]_vars

\* C13 amended: update_database sets summary, is_summarized and ai_generated
\* for every pair with a non-empty summary whose id is a stored message, the
\* daemon's update_summaries sets the summary alone; a pair with an unknown id
\* or an empty summary changes nothing; the number returned counts the pairs
\* that were written to a row.
C13_UpdateWritingPairs ==
    [][(last'.op \in {"update_database", "update_summaries"} /\ last'.outcome = "committed") =>
          /\ db'.messages = {Summarized(m, last'.summaries,
                                        WritingPairs(last'.summaries, m.message_uuid),
                                        last'.op = "update_database") :
                               m \in db.messages}
          /\ db'.conversations = db.conversations
          /\ last'.updated = Cardinality(UNION {WritingPairs(last'.summaries, m.message_uuid) :
                                                  m \in db.messages})]_vars

\* update_database was given a pair for the stored a and a pair for an unknown
\* id: one row written, one counted
C13_Witness ==
    /\ last.op = "update_database" /\ last.outcome = "committed"
    /\ Len(last.summaries) = 2 /\ last.updated = 1
    /\ \E i \in 1..2 : last.summaries[i].uuid = Dangling /\ last.summaries[i].summary # ""
    /\ \E m \in db.messages :
          /\ m.message_uuid = "a" /\ m.summary = AiSummary
          /\ m.is_summarized /\ m.summary_method = "ai_generated"

\* a message row without the three columns of the summary
Frozen(m) ==
    [col \in DOMAIN m \ {"summary", "is_summarized", "summary_method"} |-> m[col]]

MaxCollected == 41
RequestContentLen == 2000

DecimalDigit(d) == SubSeq("0123456789", d + 1, d + 1)

\* the collected messages are the records of three log files of up to 15
\* records, each record the answer to the one before it in its file; the
\* records 1 and 21 are longer than a request item holds
BatchId(i) == "m" \o DecimalDigit(i \div 10) \o DecimalDigit(i % 10)

BatchContent(i) ==
    IF i % 20 = 1
    THEN "Paste of the build log follows: " \o Rep("0123456789", 200) \o " end of log"
    ELSE "Please explain step " \o DecimalDigit(i \div 10) \o DecimalDigit(i % 10)
            \o " of the migration plan in more detail"

FileRecords == 15

BatchSession(f) == "S" \o DecimalDigit(f)

BatchLine(i) ==
    [kind |-> "record", type |-> IF i % 2 = 1 THEN "user" ELSE "assistant",
     uuid |-> BatchId(i),
     parentUuid |-> IF i % FileRecords = 1 THEN Null ELSE BatchId(i - 1),
     sessionId |-> BatchSession((i - 1) \div FileRecords + 1),
     content |-> BatchContent(i), timestamp |-> i,
     summary |-> Null, leafUuid |-> Null]

\* the lines of file f when n records were written in all
BatchLines(n, f) ==
    [k \in 1..Max({0, Min({n - (f - 1) * FileRecords, FileRecords})}) |->
        BatchLine((f - 1) * FileRecords + k)]

\* step 1 of the pass: the three files indexed one after the other
BatchIndexed(n) ==
    index_conversation(
        index_conversation(
            index_conversation(EmptyStore, PathOf(BatchSession(1)), BatchLines(n, 1),
                               FALSE, "none").st,
            PathOf(BatchSession(2)), BatchLines(n, 2), FALSE, "none").st,
        PathOf(BatchSession(3)), BatchLines(n, 3), FALSE, "none").st

\* the JSON items of the prompt of summarize_batch
BatchRequestWhole(messages) ==
    [i \in 1..Len(messages) |->
        [uuid |-> messages[i].uuid, message_type |-> messages[i].message_type,
         content |-> messages[i].content]]

BatchRequest(messages) ==
    [i \in 1..Len(messages) |->
        [uuid |-> messages[i].uuid, message_type |-> messages[i].message_type,
         content |-> Take(messages[i].content, RequestContentLen)]]

\* how a call to the summarizer can go; "foreign" is well-formed JSON with one
\* summary under the id of a message that was not in the request
BatchAnswers ==
    {"ok", "partial", "timeout", "nonzero", "malformed", "empty", "misshapen", "foreign"}

ForeignSummary == "Summary of some other message"

\* the id of a collected message that is not in the batch
ForeignUuid(batch) ==
    IF \E j \in 1..Len(batch) : batch[j].uuid = BatchId(1) THEN BatchId(21) ELSE BatchId(1)

\* what summarize_batch(batch) returns: summaries_data.get('summaries', []),
\* whatever ids the items carry
BatchReply(batch, answer) ==
    IF answer = "foreign" THEN <<[uuid |-> ForeignUuid(batch), summary |-> ForeignSummary]>>
    ELSE summarize_batch(batch, answer)

\* update_database as process_pending calls it: summary_data.get raises
\* AttributeError on an item that is no dict, before conn.commit()
UpdateCalled(st, summaries) ==
    IF \E i \in 1..Len(summaries) : "text" \in DOMAIN summaries[i]
    THEN [st |-> st, updated |-> 0, raised |-> TRUE]
    ELSE [st |-> update_database(st, summaries).st,
          updated |-> update_database(st, summaries).updated, raised |-> FALSE]

\* process_pending after pending_files.clear(): the files of n records in all
\* have been indexed and all their messages were collected as needing a summary
PassCollected(n) ==
    [pc |-> "batches", wakeAt |-> 0,
     unsummarized |-> parse_conversation_file(BatchLines(n, 1)).messages
                         \o parse_conversation_file(BatchLines(n, 2)).messages
                         \o parse_conversation_file(BatchLines(n, 3)).messages,
     i |-> 0, sent |-> <<>>, answers |-> <<>>, total_updated |-> 0]

InitBatch ==
    \E n \in 0..MaxCollected :
    \E st \in {BatchIndexed(n)} :
        /\ gMsg = NoMsg
        /\ gOut = NoResult
        /\ db = st
        /\ conn = st
        /\ indexer = "idle"
        /\ last = NoCall
        /\ now = 0
        /\ pending_files = {}
        /\ last_change_time = 0
        /\ last_process_time = 0
        /\ observer = ObserverIdle
        /\ watchLog = NoWatchLog
        /\ timerLoop = PassCollected(n)

\* one turn of "for i in range(0, len(all_unsummarized), batch_size)"; an
\* exception of update_database is caught neither in process_pending nor in the
\* loop of start_watcher and ends both
SendBatch(answer) ==
    /\ timerLoop.pc = "batches"
    /\ timerLoop.i < Len(timerLoop.unsummarized)
    /\ LET batch == SubSeq(timerLoop.unsummarized, timerLoop.i + 1,
                           Min({timerLoop.i + BatchSize, Len(timerLoop.unsummarized)}))
       IN  \E summaries \in {BatchReply(batch, answer)} :
           \E written \in {IF summaries # <<>> THEN UpdateCalled(db, summaries)
                           ELSE [st |-> db, updated |-> 0, raised |-> FALSE]} :
               /\ db' = written.st
               /\ conn' = written.st
               /\ timerLoop' = [timerLoop EXCEPT
                                  !.pc = IF written.raised THEN "raised" ELSE @,
                                  !.i = @ + BatchSize,
                                  !.sent = Append(@, BatchRequest(batch)),
                                  !.answers = Append(@, answer),
                                  !.total_updated = @ + written.updated]
    /\ UNCHANGED <<now, pending_files, last_change_time, last_process_time, observer, watchLog>>
    /\ UNCHANGED <<gateVars, indexer, last>>

\* the range is used up (or nothing was collected): the pass returns
FinishPass ==
    /\ timerLoop.pc = "batches"
    /\ timerLoop.i >= Len(timerLoop.unsummarized)
    /\ timerLoop' = [timerLoop EXCEPT !.pc = "done"]
    /\ last_process_time' = now
    /\ UNCHANGED <<now, pending_files, last_change_time, observer, watchLog>>
    /\ UNCHANGED <<gateVars, storeVars>>

NextBatch ==
    \/ \E answer \in BatchAnswers : SendBatch(answer)
    \/ FinishPass

SpecBatch == InitBatch /\ [][NextBatch]_vars

\* all requests of the pass so far, one after the other
RECURSIVE Flat(_)
Flat(requests) == IF requests = <<>> THEN <<>> ELSE Head(requests) \o Flat(Tail(requests))

\* C15: the requests of a pass hold at most 20 items each, all but the last
\* exactly 20; laid end to end they are the collected messages in their order,
\* each once, every item being the message's id, role and the first 2000
\* characters of its content; a pass that returns has made ceil(n/20) calls.
C15_BatchContract ==
    timerLoop.pc \in {"batches", "done", "raised"} =>
        LET all == timerLoop.unsummarized
            sent == timerLoop.sent
            items == Flat(sent)
        IN  /\ \A k \in 1..Len(sent) :
                  /\ Len(sent[k]) >= 1 /\ Len(sent[k]) <= 20
                  /\ k < Len(sent) => Len(sent[k]) = 20
            /\ Len(items) <= Len(all)
            /\ \A j \in 1..Len(items) :
                  /\ DOMAIN items[j] = {"uuid", "message_type", "content"}
                  /\ items[j].uuid = all[j].uuid
                  /\ items[j].message_type = all[j].message_type
                  /\ items[j].content = SubSeq(all[j].content, 1,
                                               IF Len(all[j].content) < 2000
                                               THEN Len(all[j].content) ELSE 2000)
            /\ timerLoop.pc = "done" =>
                  /\ Len(items) = Len(all)
                  /\ Len(sent) = (Len(all) + 19) \div 20

\* a finished pass over 41 messages: three calls, the third with one item, and
\* the first item of the second call cut to 2000 characters
C15_Witness ==
    /\ timerLoop.pc = "done"
    /\ Len(timerLoop.unsummarized) = 41
    /\ Len(timerLoop.sent) = 3
    /\ Len(timerLoop.sent[3]) = 1
    /\ Len(timerLoop.unsummarized[21].content) > 2000
    /\ Len(timerLoop.sent[2][1].content) = 2000

\* the messages of the k-th batch of a pass
BatchOf(all, k) == SubSeq(all, 20 * (k - 1) + 1, IF 20 * k < Len(all) THEN 20 * k ELSE Len(all))

\* the ids a call answered with a summary
Answered(all, k, answer) ==
    IF answer = "foreign" THEN {ForeignUuid(BatchOf(all, k))}
    ELSE {BatchOf(all, k)[j].uuid : j \in {x \in 1..Len(BatchOf(all, k)) :
                                             answer = "ok" \/ (answer = "partial" /\ x % 2 = 1)}}

\* C16: a call to the summarizer that times out, exits non-zero, returns
\* malformed output or an empty list changes no row of the store and leaves
\* the pass running with the next batch; an answer changes exactly the rows of
\* the ids it holds; and a pass ends only when every batch was sent, with the
\* rows of every answered id summarized.
C16_FailureIsolation ==
    [][/\ (timerLoop.pc = "batches" /\ Len(timerLoop'.answers) = Len(timerLoop.answers) + 1) =>
            LET k == Len(timerLoop'.answers)
                ids == Answered(timerLoop.unsummarized, k, timerLoop'.answers[k])
            IN  /\ timerLoop'.pc = "batches"
                /\ timerLoop'.i = 20 * k
                /\ \A m \in db.messages : m.message_uuid \notin ids => m \in db'.messages
                /\ \A m \in db'.messages :
                      m.message_uuid \in ids =>
                          m.is_summarized /\ m.summary_method = "ai_generated"
                /\ timerLoop'.answers[k] \notin {"ok", "partial", "foreign"} => db' = db
       /\ timerLoop'.pc = "done" =>
            /\ Len(timerLoop'.answers) = (Len(timerLoop'.unsummarized) + 19) \div 20
            /\ \A k \in 1..Len(timerLoop'.answers) :
               \A m \in db'.messages :
                  m.message_uuid \in Answered(timerLoop'.unsummarized, k, timerLoop'.answers[k])
                      => m.is_summarized]_vars

\* a turn of the batch loop is taken
BatchTurn == timerLoop.pc = "batches" /\ Len(timerLoop'.answers) = Len(timerLoop.answers) + 1

MaxScan == 3

\* the files a scan finds: a conversation of two records, one whose only
\* record carries an id the first file uses too, one whose second record
\* repeats the id of the first and names it as parent, an empty file, a file
\* whose first record alone lacks the session id, a file whose records carry
\* two session ids, and a file whose only record carries no session id
ScanFiles ==
    {ChainFile("S1", <<"a", "b">>), ChainFile("S2", <<"a">>),
     ChainFile("S3", <<"c", "c">>), [path |-> PathOf("S4"), lines |-> <<>>],
     [path |-> PathOf("S5"), lines |-> <<MsgLine("b", Null, Null), MsgLine("c", "b", "S5")>>],
     [path |-> PathOf("S6"), lines |-> <<MsgLine("c", Null, "S6"), MsgLine("b", "c", "S7")>>],
     [path |-> PathOf("S7"), lines |-> <<MsgLine("b", Null, Null)>>]}

\* scan_conversations(): every file once, in some order
Scans ==
    {files \in SeqsUpTo(ScanFiles, MaxScan) :
        \A i \in 1..Len(files) : \A j \in 1..Len(files) : files[i] = files[j] => i = j}

\* files = indexer.scan_conversations(...)
StartScan(files) ==
    /\ last.op = "none"
    /\ last' = [NoCall EXCEPT !.op = "scan", !.args = [files |-> files],
                              !.result = [attempted |-> <<>>]]
    /\ UNCHANGED <<db, conn, indexer>>
    /\ UNCHANGED gateVars
    /\ UNCHANGED watchVars

\* one turn of "for i, file_path in enumerate(files, 1)": try index_conversation,
\* except Exception: print. A call that never returns leaves the loop in it.
ScanStep ==
    /\ last.op = "scan"
    /\ indexer = "idle"
    /\ Len(last.result.attempted) < Len(last.args.files)
    /\ LET file == last.args.files[Len(last.result.attempted) + 1]
       IN  \E r \in {index_conversation(conn, file.path, file.lines, FALSE, "none")} :
               /\ conn' = r.st
               /\ db' = IF r.outcome = "committed" THEN r.st ELSE db
               /\ indexer' = IF r.outcome = "hang" THEN "hung" ELSE "idle"
               /\ last' = [last EXCEPT !.result.attempted = Append(@, r.outcome)]
    /\ UNCHANGED gateVars
    /\ UNCHANGED watchVars

\* the loop is through: indexer.close()
ScanEnd ==
    /\ last.op = "scan"
    /\ indexer = "idle"
    /\ Len(last.result.attempted) = Len(last.args.files)
    /\ conn' = db
    /\ last' = [last EXCEPT !.op = "scanned"]
    /\ UNCHANGED <<db, indexer>>
    /\ UNCHANGED gateVars
    /\ UNCHANGED watchVars

NextScan ==
    \/ \E files \in Scans : StartScan(files)
    \/ ScanStep
    \/ ScanEnd

SpecScan == Init /\ [][NextScan]_vars

\* C17: in a scan the files are attempted one after the other, each once, and
\* whatever became of the files attempted so far, the scan is not held up: the
\* next file can be attempted, and the scan ends with every file attempted.
C17_ScanIsolation ==
    last.op \in {"scan", "scanned"} =>
        /\ Len(last.result.attempted) <= Len(last.args.files)
        /\ last.op = "scanned" => Len(last.result.attempted) = Len(last.args.files)
        /\ last.op = "scan" => indexer = "idle"

\* the messages of the file a scan attempted as its k-th
AttemptedMessages(call, k) == parse_conversation_file(call.args.files[k].lines).messages

\* a step of a scan that attempts a file
Attempts ==
    /\ last.op = "scan" /\ last'.op = "scan"
    /\ Len(last'.result.attempted) = Len(last.result.attempted) + 1

\* C18: the attempt of a file that yields no message, or whose first message
\* carries no session id (so also a file none of whose messages carries one),
\* leaves the committed rows and the rows the connection sees as they were.
C18_NoPartialWrite ==
    [][Attempts =>
          LET messages == AttemptedMessages(last', Len(last'.result.attempted))
          IN  (messages = <<>> \/ Falsy(messages[1].session_id)) =>
                  db' = db /\ conn' = conn]_vars

\* a scan has indexed a conversation and then attempted the file whose only
\* record carries no session id
C18_Witness ==
    /\ last.op = "scan"
    /\ Len(last.result.attempted) = 2
    /\ last.result.attempted[1] = "committed"
    /\ db.messages # {}
    /\ AttemptedMessages(last, 2) # <<>>
    /\ \A i \in 1..Len(AttemptedMessages(last, 2)) :
          Falsy(AttemptedMessages(last, 2)[i].session_id)

\* the messages of a file that carry a session id, in file order
Carrying(messages) ==
    LET Carries(m) == ~Falsy(m.session_id)
    IN  SelectSeq(messages, Carries)

StoredUnder(st, messages, session_id) ==
    \A i \in 1..Len(messages) :
        \E m \in st.messages : m.message_uuid = messages[i].uuid /\ m.session_id = session_id

\* C20 as stated: when an attempt returns and some message of the file carries
\* a session id, every message of the file is stored under the session id of
\* the first message that carries one.
C20_FirstCarrierSession ==
    [][Attempts =>
          LET k == Len(last'.result.attempted)
              messages == AttemptedMessages(last', k)
          IN  (last'.result.attempted[k] \notin {"raised", "hang"} /\ Carrying(messages) # <<>>) =>
                  StoredUnder(conn', messages, Carrying(messages)[1].session_id)]_vars

\* C20 amended: the session id is that of the first message of the file; when
\* the first message carries one and the attempt commits, every message of the
\* file is stored under it and the conversation row carries it; when it
\* carries none nothing is stored, whatever the later messages carry.
C20_FirstMessageSession ==
    [][Attempts =>
          LET k == Len(last'.result.attempted)
              messages == AttemptedMessages(last', k)
          IN  /\ last'.result.attempted[k] = "committed" =>
                    /\ ~Falsy(messages[1].session_id)
                    /\ StoredUnder(db', messages, messages[1].session_id)
                    /\ \E c \in db'.conversations :
                          /\ c.session_id = messages[1].session_id
                          /\ c.message_count = Len(messages)
              /\ (messages # <<>> /\ Falsy(messages[1].session_id)) =>
                    /\ last'.result.attempted[k] = "no_session"
                    /\ db' = db /\ conn' = conn]_vars

\* a scan has committed the file whose second record carries another session
\* id than its first: both rows stand under the first one's
C20_Witness ==
    /\ last.op = "scan"
    /\ Len(last.result.attempted) = 1
    /\ last.result.attempted[1] = "committed"
    /\ \E i \in 1..Len(AttemptedMessages(last, 1)) :
          AttemptedMessages(last, 1)[i].session_id # AttemptedMessages(last, 1)[1].session_id
    /\ \A m \in db.messages : m.session_id = AttemptedMessages(last, 1)[1].session_id
    /\ Cardinality(db.messages) = 2

(***************************************************************************)
(* The parser on files of every kind of line                               *)
(***************************************************************************)

MaxParseLines == 3

ParseLineKinds ==
    {MsgLine("a", Null, "S1"), MsgLine("b", "a", "S1"), SystemLine("c"), NoBodyLine("c"),
     SummaryLine("Parser fixes", "b"), MalformedLine, ScalarLine, ArrayLine}

\* conv_meta, messages = self.parse_conversation_file(file_path)
Parse(lines) ==
    /\ last.op = "none"
    /\ last' = [NoCall EXCEPT !.op = "parse", !.lines = lines,
                              !.result = parse_conversation_file(lines)]
    /\ UNCHANGED <<db, conn, indexer>>
    /\ UNCHANGED gateVars
    /\ UNCHANGED watchVars

NextParse == \E lines \in SeqsUpTo(ParseLineKinds, MaxParseLines) : Parse(lines)

SpecParse == Init /\ [][NextParse]_vars

\* the lines of a file that hold a JSON object with an identifier and a role
\* of user or assistant, and those that hold a message besides
WithIdAndRole(lines) ==
    LET Is(l) == l.kind = "record" /\ l.uuid # Null /\ l.type \in {"user", "assistant"}
    IN  SelectSeq(lines, Is)

WithIdRoleAndMessage(lines) ==
    LET Is(l) == /\ l.kind = "record" /\ l.uuid # Null /\ l.type \in {"user", "assistant"}
                 /\ l.content # Null
    IN  SelectSeq(lines, Is)

MessagesOf(records) == [i \in 1..Len(records) |-> ParsedMessage(records[i])]

MaxDepthRecords == 3

\* the message lists the parser hands over: records over two ids with every
\* kind of parent reference, ids and references repeated or not
DepthMessages ==
    {[i \in 1..Len(recs) |-> ParsedMessage(MsgLine(recs[i].uuid, recs[i].parent, "S1"))] :
        recs \in SeqsUpTo([uuid : {"a", "b"}, parent : {Null, "a", "b", Dangling}],
                          MaxDepthRecords)}

\* calculate_depth(messages, parent_map) up to the first test of "while queue"
CallCalculateDepth(messages) ==
    /\ last.op = "none"
    /\ last' = [NoCall EXCEPT
                  !.op = "calculate_depth",
                  !.args = [messages |-> messages],
                  !.result = [pc |-> "while",
                              queue |-> QueueOf(SelectSeq(messages, LAMBDA m : Falsy(m.parent_uuid)), 0),
                              depths |-> [u \in Uuids(messages) |-> NoDepth]]]
    /\ UNCHANGED <<db, conn, indexer>>
    /\ UNCHANGED gateVars
    /\ UNCHANGED watchVars

\* the longest queue that is kept; a call that returns never holds more
\* entries than twice the number of records
MaxQueueLen(messages) == 2 * Len(messages)

\* depth + 1 as the loop counts it. A depth above the number of records lies on
\* a path that passes one uuid twice, and the loop then never ends; there the
\* counter is carried on within Len(messages)+1 .. 2*Len(messages)+1 so that
\* the turns without end stay within finitely many states
DepthAfter(messages, depth) ==
    IF depth + 1 > 2 * Len(messages) + 1 THEN Len(messages) + 1 ELSE depth + 1

\* one turn of the loop: queue.pop(0), depths[uuid] = depth, the children
\* appended. A queue that outgrows MaxQueueLen grows without bound until the
\* memory is used up, which is recorded as "exhausted"
DepthTurn ==
    /\ last.op = "calculate_depth"
    /\ last.result.pc = "while"
    /\ last.result.queue # <<>>
    /\ LET messages == last.args.messages
           cur == Head(last.result.queue)
           IsChild(m) == m.parent_uuid = cur.uuid
           queue == Tail(last.result.queue)
                        \o QueueOf(SelectSeq(messages, IsChild), DepthAfter(messages, cur.depth))
       IN  last' = [last EXCEPT
                      !.result =
                          IF Len(queue) > MaxQueueLen(messages)
                          THEN [@ EXCEPT !.pc = "exhausted"]
                          ELSE [@ EXCEPT
                                  !.queue = queue,
                                  !.depths = [@ EXCEPT ![cur.uuid] = cur.depth]]]
    /\ UNCHANGED <<db, conn, indexer>>
    /\ UNCHANGED gateVars
    /\ UNCHANGED watchVars

\* the queue is empty: return depths
DepthReturn ==
    /\ last.op = "calculate_depth"
    /\ last.result.pc = "while"
    /\ last.result.queue = <<>>
    /\ last' = [last EXCEPT !.result = [@ EXCEPT !.pc = "returned"]]
    /\ UNCHANGED <<db, conn, indexer>>
    /\ UNCHANGED gateVars
    /\ UNCHANGED watchVars

NextDepth ==
    \/ \E messages \in DepthMessages : CallCalculateDepth(messages)
    \/ DepthTurn
    \/ DepthReturn

\* a call that has begun goes on running
SpecDepth == Init /\ [][NextDepth]_vars /\ WF_vars(DepthTurn) /\ WF_vars(DepthReturn)

\* C27: calculate_depth returns on every message list, lists with a repeated
\* id and lists with a cycle of parent references included.
C27_DepthTerminates ==
    (last.op = "calculate_depth") ~> (last.op = "calculate_depth" /\ last.result.pc = "returned")

(***************************************************************************)
(* The conversation row of files with and without a summary header         *)
(***************************************************************************)

ConvLines == 2

ConvHeaders == {<<>>, <<SummaryLine("Parser fixes", "b")>>, <<SummaryLine(Null, "b")>>}

ConvFiles ==
    {[path |-> PathOf("S1"),
      lines |-> header \o [i \in 1..Len(recs) |-> MsgLine(recs[i].uuid, recs[i].parent, "S1")]] :
        header \in ConvHeaders,
        recs \in SeqsUpTo([uuid : {"a", "b"}, parent : {Null, "", "a", "b", Dangling}], ConvLines)}

NextConv == \E file \in ConvFiles : last.op = "none" /\ IndexFile(file, RawMode)

SpecConv == Init /\ [][NextConv]_vars

\* the conversation rows of the session of the file indexed last
IndexedConversations == {c \in db.conversations : c.session_id = SessionOf(last.lines)}

HasHeader(lines) == Len(lines) >= 1 /\ lines[1].kind = "record" /\ lines[1].type = "summary"

\* the first message in file order without a parent, the first message when
\* every message has one
FirstParentless(messages) ==
    LET parentless == {i \in 1..Len(messages) :
                          messages[i].parent_uuid = Null \/ messages[i].parent_uuid = ""}
    IN  IF parentless = {} THEN messages[1].uuid
        ELSE messages[CHOOSE i \in parentless : \A j \in parentless : i <= j].uuid

\* C21 as stated: after a committed index the conversation row of a file
\* without header carries the placeholder as its summary, and the root message
\* id is that of the first parentless message, of the first message when none
\* is parentless.
C21_PlaceholderWithoutHeader ==
    (last.op = "index" /\ last.outcome = "committed") =>
        /\ IndexedConversations # {}
        /\ \A c \in IndexedConversations :
              /\ ~HasHeader(last.lines) => c.conversation_summary = "Untitled conversation"
              /\ c.root_message_uuid
                    = FirstParentless(parse_conversation_file(last.lines).messages)

\* C21 amended: the summary is absent (NULL) for a file without header, the
\* placeholder for a header without summary text, the header's text otherwise;
\* the root message id is as stated.
C21_ConversationRow ==
    (last.op = "index" /\ last.outcome = "committed") =>
        /\ Cardinality(IndexedConversations) = 1
        /\ \A c \in IndexedConversations :
              /\ c.conversation_summary =
                    IF ~HasHeader(last.lines) THEN Null
                    ELSE IF last.lines[1].summary = Null THEN "Untitled conversation"
                    ELSE last.lines[1].summary
              /\ c.root_message_uuid
                    = FirstParentless(parse_conversation_file(last.lines).messages)

\* a file without header whose two messages both name a parent was indexed:
\* the summary is absent and the root is the first message
C21_Witness ==
    /\ last.op = "index" /\ last.outcome = "committed"
    /\ ~HasHeader(last.lines)
    /\ Len(parse_conversation_file(last.lines).messages) = 2
    /\ \A i \in 1..2 : parse_conversation_file(last.lines).messages[i].parent_uuid \notin {Null, ""}
    /\ \E c \in db.conversations :
          c.conversation_summary = Null /\ c.root_message_uuid = last.lines[1].uuid

(***************************************************************************)
(* Gate inputs: a lead text followed by filler, with total lengths and     *)
(* trailing-text lengths on both sides of every threshold of the gate      *)
(***************************************************************************)

Slack == 1

Window(t) == (t - Slack)..(t + Slack)

GateLeads ==
    {"", "  ", "[Tool: Read]", " [Tool: Bash]", "[Tool result]", "[Tool result] ",
     "Done. [Tool: Read]", "Done. [Tool: Grep] ", "See a[0] and [Tool: LS]",
     "Let me check", "I'll look at ", "Let me check [Tool: Read]", "[Request interrupted by user]",
     "Stop [Request interrupted", "Fix the bug in parser"}

PadLens(lead) ==
    {0} \cup Window(TextAfterToolMax)
        \cup {t - Len(lead) : t \in Window(TooShortLen) \cup Window(AckMaxLen)}

GateContents ==
    UNION {{lead \o Rep("x", n) : n \in {k \in PadLens(lead) : k >= 0}} : lead \in GateLeads}

GateSummaries ==
    {"", "Short one", "Explains the regex fix for the parser",
     "Explains the regex fix for...", "[Tool: Read] then some words after",
     Rep("s", TruncMinLen), Rep("s", TruncMaxLen + 1),
     Rep("x", TruncMaxLen - 1), Rep("x", TruncMaxLen)}

GateMessages ==
    [content : GateContents, message_type : {"user", "assistant"}, summary : GateSummaries]

InitGate ==
    /\ gMsg \in GateMessages
    /\ gOut = NoResult
    /\ db = EmptyStore
    /\ conn = EmptyStore
    /\ indexer = "idle"
    /\ last = NoCall
    /\ WatcherConstructed

\* MessageSummarizer.needs_summarization(message)
NeedsSummarization ==
    /\ gOut = NoResult
    /\ gOut' = needs_summarization(gMsg)
    /\ UNCHANGED gMsg
    /\ UNCHANGED storeVars
    /\ UNCHANGED watchVars

NextGate == NeedsSummarization

SpecGate == InitGate /\ [][NextGate]_vars

(***************************************************************************)
(* Properties of the gate, checked under SpecGate                          *)
(***************************************************************************)

GateClasses == {"tool_noise", "too_short", "already_done", "needs_summary"}

GateCalled == gOut # NoResult

HasGoodSummary(message) ==
    message.summary # "" /\ ~is_truncated_summary(message.summary, message.content)

\* the six tool_noise conditions as the gate's description lists them, none of
\* them tied to a minimum length
ListedNoiseCondition(message) ==
    \/ IsMarkerNoise(message.content)
    \/ IsPatternNoise(message.content)
    \/ IsAckNoise(message)

C9_GateBoundary ==
    (GateCalled /\ gOut.reason # "tool_noise") =>
        (gOut.reason = "too_short" <=> Len(gMsg.content) < 50)

\* a plain message of exactly 49 characters came out too_short
C9_Witness ==
    /\ Len(gMsg.content) = 49
    /\ ~ListedNoiseCondition(gMsg)
    /\ gOut.reason = "too_short"

\* the placeholder test as the gate's description gives it: the 145..150 case
\* asks for the content to begin with the summary
DescribedPlaceholder(summary, content) ==
    \/ EndsWith(summary, "...")
    \/ (145 <= Len(summary) /\ Len(summary) <= 150 /\ StartsWith(content, summary))
    \/ StartsWith(summary, "[Tool")
    \/ Len(summary) < 20

\* the gate reached its third test with a summary present
PastNoiseAndLength ==
    /\ GateCalled
    /\ gOut.reason \notin {"tool_noise", "too_short"}
    /\ gMsg.summary # ""

\* C22 as stated: a message that is neither tool_noise nor too_short and has a
\* summary is already_done exactly when the summary is not a placeholder, a
\* 145..150 character summary being a placeholder only when the content
\* begins with it.
C22_AlreadyDoneByPrefix ==
    PastNoiseAndLength =>
        (gOut.reason = "already_done" <=> ~DescribedPlaceholder(gMsg.summary, gMsg.content))

\* C22 amended: a message that is neither tool_noise nor too_short and has a
\* summary is already_done exactly when the summary is not a placeholder,
\* where a summary is a placeholder iff it ends with an ellipsis, or it has
\* 145 to 150 characters and the content is strictly longer than it (prefix
\* or not), or it starts with "[Tool", or it has fewer than 20 characters.
C22_AlreadyDoneByLength ==
    PastNoiseAndLength =>
        LET s == gMsg.summary
            placeholder ==
                \/ EndsWith(s, "...")
                \/ (145 <= Len(s) /\ Len(s) <= 150 /\ Len(gMsg.content) > Len(s))
                \/ StartsWith(s, "[Tool")
                \/ Len(s) < 20
        IN  /\ gOut.reason = "already_done" <=> ~placeholder
            /\ gOut.reason = "needs_summary" <=> placeholder

\* a 145-character summary that is no prefix of its longer content was taken
\* for a placeholder
C22_Witness ==
    /\ PastNoiseAndLength
    /\ Len(gMsg.summary) = 145
    /\ ~StartsWith(gMsg.content, gMsg.summary)
    /\ Len(gMsg.content) > 145
    /\ gOut.reason = "needs_summary"

\* the read/list/search markers of the gate's description
read_markers == {"[Tool: Read]", "[Tool: Glob]", "[Tool: LS]", "[Tool: Grep]"}

\* some read/list/search marker in the content is followed by at most 100
\* characters of text
MarkerWithShortTail(content) ==
    \E p \in read_markers :
        \E i \in 1..(Len(content) - Len(p) + 1) :
            /\ SubSeq(content, i, i + Len(p) - 1) = p
            /\ Len(Strip(SubSeq(content, i + Len(p), Len(content)))) <= 100

HasNoisePattern(content) == \E p \in noise_patterns : Contains(content, p)

====
